---- MODULE Spec2Model ----
(***************************************************************************)
(* Model of goimagefinder: the scan pipeline (scanner/scanner.go,          *)
(* scanner/progress.go, scanner/dbhelper.go), the scan command (main.go),  *)
(* the image store (database package: InitDatabase, CheckImageExists,      *)
(* StoreImageInfo), the search (imageprocessor.FindSimilarImages), the     *)
(* RAW and TIFF loaders and the hash functions.                            *)
(*                                                                         *)
(* Eleven specifications share the variables; each leaves the variables of *)
(* the others at their idle values:                                        *)
(*   Spec        one ScanAndStoreFolder run with every goroutine (workers, *)
(*               result forwarder, buffer monitor, result processor, main) *)
(*               interleaved step by step;                                 *)
(*   SpecLive    Spec with weak fairness for each goroutine;               *)
(*   SpecRescan  successive scans of one folder, a task at a time, with    *)
(*               the clock advancing, files being modified between scans   *)
(*               and scans being interrupted;                              *)
(*   SpecCommand handleScanCommand from the check of the folder to the     *)
(*               exit status, the directory walk entry by entry;           *)
(*   SpecStore   scan tasks writing table images concurrently through the  *)
(*               SQL statements of StoreImageInfo, while files change and  *)
(*               searches query the table;                                 *)
(*   SpecSearch  one FindSimilarImages call: row loop, concurrent          *)
(*               verifications, sort;                                      *)
(*   SpecVerify  the verification goroutines of FindSimilarImages and      *)
(*               their semaphore, exit by exit;                            *)
(*   SpecDecode  concurrent decode calls of the RAW loaders and the TIFF   *)
(*               handler with their temporary files;                       *)
(*   SpecHash    ComputeAverageHash and ComputePerceptualHash of           *)
(*               hash_utils.go on one image;                               *)
(*   SpecNames   areFilenamesRelated on two base filenames;                *)
(*   SpecDistance CalculateHammingDistance on two hash strings.            *)
(* Time is counted in ticks of 1/TicksPerSecond second; an RFC3339 string  *)
(* is modelled by its whole number of seconds. Scores and thresholds are   *)
(* counted in hundredths.                                                  *)
(***************************************************************************)
EXTENDS Integers, Sequences, FiniteSets, TLC

\* ---------------------------------------------------------------- bounds
NumFiles == 3            \* files enumerated by the directory walk
BufferSize == 1          \* capacity of resultsBuffer (1000 in the source, scaled)
ChunkSize == 2           \* files launched per chunk (100 in the source, scaled)
MaxConfigWorkers == 1    \* largest positive options.MaxWorkers tried
NumRescanFiles == 2      \* files of the folder scanned in SpecRescan
MaxTick == 2            \* last clock tick of SpecRescan
NumEntries == 3          \* directory entries below the root in SpecCommand
NumStoreTasks == 2       \* scan tasks writing the table at once in SpecStore
NumStorePaths == 1       \* paths of SpecStore
NumFileVersions == 2     \* contents a file of SpecStore takes, one after the other
MaxHashChars == 3        \* longest hash string of SpecDistance
NumCandidates == 9       \* rows of SpecVerify, more than the semaphore has slots
NumPrefixes == 2         \* source prefixes of SpecStore
MaxRowId == 4            \* last AUTOINCREMENT id handed out in SpecStore
NumRecords == 3          \* rows the search query returns in SpecSearch
NumDecodeCalls == 2      \* decode calls running at once in SpecDecode
NumSourceDirs == 2       \* directories of the source files of SpecDecode
NumSourceBases == 2      \* base filenames of the source files of SpecDecode
NumTimeStamps == 2       \* values time.Now().UnixNano() takes in SpecDecode
MaxPattern == 6          \* last pixel pattern of each kind in SpecHash

\* ------------------------------------------------------ program constants
DefaultMaxWorkers == 8   \* maxWorkers when options.MaxWorkers <= 0
SemaphoreAttempts == 3   \* "Try 3 times"
WorkerSendAttempts == 4  \* 100ms, 300ms, 500ms, 1s
ForwardAttempts == 3     \* 500ms, 1s, 2s
TicksPerSecond == 2      \* sub-second resolution of a file time
SearchWorkers == 8       \* capacity of the semaphore of FindSimilarImages
HexHashLen == 16         \* characters of a hash of hash_utils.go
BitHashLen == 64         \* characters of a hash of the 8x8 bit-string functions
GridSize == 8            \* side of the grid both hash functions take a bit per cell of
DctSize == 32            \* side of the image the DCT is applied to
RawJpgAvgThreshold == 20
RawJpgPHashThreshold == 25
RawAvgThreshold == 15
RawPHashThreshold == 18
StdAvgThreshold == 10
StdPHashThreshold == 12
BypassThreshold == 64    \* thresholds of a JPG query and a RAW record with related names

Files == 1..NumFiles

VARIABLES
    options,        \* ScanOptions: [MaxWorkers, ForceRewrite]
    mainPc,         \* position of ScanAndStoreFolder / walkAndProcessFiles
    chunkStart,     \* chunk loop variable
    wpc,            \* position of each file's worker goroutine
    semTry,         \* worker: semaphore attempts that timed out
    sendTry,        \* worker: buffer sends that timed out
    result,         \* worker: its ProcessImageResult
    semaphore,      \* len(semaphore)
    resultsBuffer,  \* contents of the intermediate channel
    bufferClosed,
    forwarderDone,  \* TRUE once close(forwarderDone)
    resultsChan,    \* contents of the aggregator channel
    chanClosed,
    fwdPc, fwdResult, fwdTry,   \* result forwarder goroutine
    monitorPc,      \* buffer monitor goroutine
    aggPc,          \* ProgressTracker.processResults goroutine
    tracker,        \* ProgressTracker counters
    stats,          \* walkAndProcessFiles stats
    statsSnapshot,  \* the final stats snapshot that is logged
    reported,       \* counters printed by PrintCompletionStats
    store,          \* images table: key (path, sourcePrefix) -> row
    mtime,          \* file modification time, in ticks
    content,        \* file content version (what a decode returns)
    now,            \* clock, in ticks
    how,            \* per file, how its task went in this scan
    last,           \* SpecRescan: the task that has just run, what it saw and did
    clean,          \* per file: indexed by a non-force task and not modified since
    recovery,       \* SpecRescan: "no", "yes" (a scan was interrupted), "recovered"
    rootState,      \* SpecCommand: what options.FolderPath is on disk
    cmdPc,          \* SpecCommand: position of handleScanCommand
    walkLeft,       \* SpecCommand: directory entries filepath.Walk has still to visit
    walkStats,      \* SpecCommand: filesFound, filesSkipped, errorCount
    filesToProcess, \* SpecCommand: len(filesToProcess)
    filesDone,      \* SpecCommand: files whose worker has finished
    fileErrors,     \* SpecCommand: results with Success = false
    scanErr,        \* SpecCommand: ScanAndStoreFolder returned a non-nil error
    exitCode,       \* SpecCommand: exit status of the process, -1 while it runs
    debugMode,      \* SpecCommand: options.DebugMode
    walkLog,        \* SpecCommand: "Failed to access path" lines written to the log
    images,         \* SpecStore: the rows of table images
    nextId,         \* SpecStore: next AUTOINCREMENT id
    storeTask,      \* SpecStore: per scan task, its key and its position
    queried,        \* SpecStore: the rows the search query of the step just taken returned
    fileData,       \* SpecStore: per path, the version of the content the file holds
    searchOptions,  \* SpecSearch: SearchOptions and what the query file is
    searchPc,       \* SpecSearch: position of FindSimilarImages
    rowIdx,         \* SpecSearch: rows read so far
    cand,           \* SpecSearch: per row, its record and what became of it
    searchSem,      \* SpecSearch: len(semaphore)
    matches,        \* SpecSearch: the matches slice
    searchResult,   \* SpecSearch: what FindSimilarImages returns
    lastRow,        \* SpecSearch: the row read by the step just taken, NoRow after any other
    decode,         \* SpecDecode: per decode call, its source, its temporary path, its position
    tmpFiles,       \* SpecDecode: the temporary files on disk, each with its last writer
    hashIn,         \* SpecHash: the hash function called and its image
    hashOut,        \* SpecHash: what the function returned
    namesIn,        \* SpecNames: the base filenames of the two paths compared
    namesOut,       \* SpecNames: what areFilenamesRelated returned
    verifyPc,       \* SpecVerify: position of the row loop of FindSimilarImages
    verification,   \* SpecVerify: per row, where its verification is
    verifySem,      \* SpecVerify: len(semaphore)
    lastExit,       \* SpecVerify: how the verification that has just ended left
    distIn,         \* SpecDistance: the two hash strings compared
    distOut         \* SpecDistance: what CalculateHammingDistance returned, each way round

cmdVars == <<rootState, cmdPc, walkLeft, walkStats, filesToProcess, filesDone,
             fileErrors, scanErr, exitCode, debugMode, walkLog>>

tableVars == <<images, nextId, storeTask, queried, fileData>>

searchVars == <<searchOptions, searchPc, rowIdx, cand, searchSem, matches,
                searchResult, lastRow>>

\* the variables no step of a scan touches
decodeVars == <<decode, tmpFiles>>

hashVars == <<hashIn, hashOut>>

nameVars == <<namesIn, namesOut>>

verifyVars == <<verifyPc, verification, verifySem, lastExit>>

distVars == <<distIn, distOut>>

extVars == <<cmdVars, tableVars, searchVars, decodeVars, hashVars, nameVars, verifyVars,
             distVars>>

scanVars == <<options, mainPc, chunkStart, wpc, semTry, sendTry, result, semaphore,
          resultsBuffer, bufferClosed, forwarderDone, resultsChan, chanClosed,
          fwdPc, fwdResult, fwdTry, monitorPc, aggPc, tracker, stats,
          statsSnapshot, reported, store, mtime, content, now, how, last,
          clean>>

vars == <<scanVars, recovery, extVars>>

mainVars == <<mainPc, chunkStart>>

workerVars == <<wpc, semTry, sendTry, result>>

bufVars == <<resultsBuffer, bufferClosed, forwarderDone>>

chanVars == <<resultsChan, chanClosed>>

fwdVars == <<fwdPc, fwdResult, fwdTry>>

aggVars == <<aggPc, tracker>>

outVars == <<statsSnapshot, reported>>

cfgVars == <<options>>

dataVars == <<store, how, last>>

fileVars == <<mtime, content, now, clean>>

\* ------------------------------------------------------------ time format
\* t.Format(time.RFC3339): the string keeps whole seconds only
FormatRFC3339(t) == t \div TicksPerSecond

\* time.Parse(time.RFC3339, s)
ParseRFC3339(s) == s * TicksPerSecond

\* ------------------------------------------------------------------ store
NoRecord == [present |-> FALSE, modifiedAt |-> 0, createdAt |-> 0, hash |-> 0]

Row(m, c, h) == [present |-> TRUE, modifiedAt |-> m, createdAt |-> c, hash |-> h]

\* faulty variant of CheckImageExists: the count is not restricted to the key
CheckImageExistsAnyRow(db, path) == [exists |-> TRUE, storedModTime |-> db[path].modifiedAt]

\* CheckImageExists: (exists, storedModTime)
CheckImageExists(db, path) == [exists |-> db[path].present, storedModTime |-> db[path].modifiedAt]

\* faulty variant of StoreImageInfo: INSERT OR IGNORE whatever forceRewrite is
StoreImageInfoAlwaysIgnore(db, path, modifiedAt, hash, forceRewrite, clock) ==
    IF ~db[path].present
    THEN [db EXCEPT ![path] = Row(modifiedAt, FormatRFC3339(clock), hash)]
    ELSE db

\* StoreImageInfo: INSERT OR REPLACE when forceRewrite, INSERT OR IGNORE otherwise
StoreImageInfo(db, path, modifiedAt, hash, forceRewrite, clock) ==
    IF forceRewrite \/ ~db[path].present
    THEN [db EXCEPT ![path] = Row(modifiedAt, FormatRFC3339(clock), hash)]
    ELSE db

\* ComputeImageHashes of the decoded image: the fingerprint pair of content c
ComputeImageHashes(c) == c + 1

\* faulty variant of checkAndSkipIfUnchanged: skips only a file older than its row
\* (fileInfo.ModTime().Before(storedTime))
checkAndSkipIfOlder(db, path, fileTime) ==
    LET chk == CheckImageExists(db, path)
    IN  chk.exists /\ fileTime < ParseRFC3339(chk.storedModTime)

\* checkAndSkipIfUnchanged: TRUE when the task is skipped
\* (exists and !fileInfo.ModTime().After(storedTime))
checkAndSkipIfUnchanged(db, path, fileTime) ==
    LET chk == CheckImageExists(db, path)
    IN  chk.exists /\ ~(fileTime > ParseRFC3339(chk.storedModTime))

\* What the environment does to one task: the database lookup, os.Stat, the
\* decoder, the hash functions or the insert fail, or something panics
Envs == {"ok", "dbError", "statError", "decodeError", "emptyImage", "hashError",
         "storeError", "panic"}

\* how a task went: "skipped", "stored", "precheck" (failed before any decode),
\* "failed" (failed in or after the decode), "panicked"
Decoded(h) == h \in {"stored", "failed", "panicked"}

\* faulty variant of processAndStoreImage: the row is written before the hashes
\* are computed, so a hashing failure leaves a row without hashes
processAndStoreImageEarlyStore(db, path, fileTime, c, forceRewrite, clock, env) ==
    LET fail(h) == [Success |-> FALSE, db |-> db, how |-> h]
    IN  IF ~forceRewrite /\ env = "dbError" THEN fail("precheck")
        ELSE IF ~forceRewrite /\ db[path].present /\ env = "statError" THEN fail("precheck")
        ELSE IF ~forceRewrite /\ checkAndSkipIfUnchanged(db, path, fileTime)
             THEN [Success |-> TRUE, db |-> db, how |-> "skipped"]
        ELSE IF env = "statError" THEN fail("precheck")
        ELSE IF env = "panic" THEN fail("panicked")
        ELSE IF env = "hashError"
             THEN [Success |-> FALSE,
                   db |-> StoreImageInfo(db, path, FormatRFC3339(fileTime), 0,
                                         forceRewrite, clock),
                   how |-> "failed"]
        ELSE IF env \in {"decodeError", "emptyImage", "storeError"}
             THEN fail("failed")
        ELSE [Success |-> TRUE,
              db |-> StoreImageInfo(db, path, FormatRFC3339(fileTime),
                                    ComputeImageHashes(c), forceRewrite, clock),
              how |-> "stored"]

\* faulty variant of processAndStoreImage: a skipped task rewrites the record
processAndStoreImageSkipStores(db, path, fileTime, c, forceRewrite, clock, env) ==
    LET fail(h) == [Success |-> FALSE, db |-> db, how |-> h]
    IN  IF ~forceRewrite /\ env = "dbError" THEN fail("precheck")
        ELSE IF ~forceRewrite /\ db[path].present /\ env = "statError" THEN fail("precheck")
        ELSE IF ~forceRewrite /\ checkAndSkipIfUnchanged(db, path, fileTime)
             THEN [Success |-> TRUE,
                   db |-> StoreImageInfo(db, path, FormatRFC3339(fileTime),
                                         ComputeImageHashes(c), TRUE, clock),
                   how |-> "skipped"]
        ELSE IF env = "statError" THEN fail("precheck")
        ELSE IF env = "panic" THEN fail("panicked")
        ELSE IF env \in {"decodeError", "emptyImage", "hashError", "storeError"}
             THEN fail("failed")
        ELSE [Success |-> TRUE,
              db |-> StoreImageInfo(db, path, FormatRFC3339(fileTime),
                                    ComputeImageHashes(c), forceRewrite, clock),
              how |-> "stored"]

\* processAndStoreImage, as called inside the worker's recover()
processAndStoreImage(db, path, fileTime, c, forceRewrite, clock, env) ==
    LET fail(h) == [Success |-> FALSE, db |-> db, how |-> h]
    IN  IF ~forceRewrite /\ env = "dbError" THEN fail("precheck")
        ELSE IF ~forceRewrite /\ db[path].present /\ env = "statError" THEN fail("precheck")
        ELSE IF ~forceRewrite /\ checkAndSkipIfUnchanged(db, path, fileTime)
             THEN [Success |-> TRUE, db |-> db, how |-> "skipped"]
        ELSE IF env = "statError" THEN fail("precheck")
        ELSE IF env = "panic" THEN fail("panicked")
        ELSE IF env \in {"decodeError", "emptyImage", "hashError", "storeError"}
             THEN fail("failed")
        ELSE [Success |-> TRUE,
              db |-> StoreImageInfo(db, path, FormatRFC3339(fileTime),
                                    ComputeImageHashes(c), forceRewrite, clock),
              how |-> "stored"]

\* ---------------------------------------------------------------- scan
\* faulty variant of maxWorkers: options.MaxWorkers is ignored
maxWorkersDefaultOnly == DefaultMaxWorkers

\* maxWorkers of ScanAndStoreFolder
maxWorkers == IF options.MaxWorkers > 0 THEN options.MaxWorkers ELSE DefaultMaxWorkers

\* cap(resultsChan)
ResultsChanCap == maxWorkers * 2

NoResult == [Path |-> 0, Success |-> FALSE]

ZeroStats == [filesProcessed |-> 0, resultsSent |-> 0, resultsForwarded |-> 0,
              sendTimeouts |-> 0, bufferOverflows |-> 0,
              semaphoreAcquisitions |-> 0, semaphoreReleases |-> 0,
              semaphoreTimeouts |-> 0, semaphoreAbandonments |-> 0]

ZeroTracker == [processed |-> 0, errors |-> 0]

NoTask == [path |-> 0, force |-> FALSE, ok |-> TRUE, prior |-> NoRecord,
           fileTime |-> 0, at |-> 0, hash |-> 0, how |-> "none", wasClean |-> FALSE]

\* faulty variant of RecoveredResult: recover() leaves the zero-valued result
RecoveredResultZero(path) == [Path |-> 0, Success |-> FALSE]

\* lines 509-518: the result the deferred recover() builds
RecoveredResult(path) == [Path |-> path, Success |-> FALSE]

\* The per-file task as the worker runs it (lines 503-548): the result it builds
\* and the table it leaves; env is what the environment does to it
RunTask(f, env) ==
    LET r == processAndStoreImage(store, f, mtime[f], content[f],
                                  options.ForceRewrite, now, env)
    IN  /\ result' = [result EXCEPT ![f] =
                         IF r.how = "panicked" THEN RecoveredResult(f)
                         ELSE [Path |-> f, Success |-> r.Success]]
        /\ store' = r.db
        /\ how' = [how EXCEPT ![f] = IF r.how = "panicked" THEN "panicked" ELSE "processed"]

\* The record of the task that ran last (history, kept in SpecRescan)
Remember(f, env) ==
    LET r == processAndStoreImage(store, f, mtime[f], content[f],
                                  options.ForceRewrite, now, env)
    IN  /\ last' = [path |-> f, force |-> options.ForceRewrite, ok |-> (env = "ok"),
                    prior |-> store[f], fileTime |-> mtime[f], at |-> now,
                    hash |-> ComputeImageHashes(content[f]), how |-> r.how,
                    wasClean |-> clean[f]]
        /\ clean' = [clean EXCEPT ![f] = r.Success /\ ~options.ForceRewrite]

PipeInit ==
    /\ mainPc = "start"
    /\ chunkStart = 0
    /\ wpc = [f \in Files |-> "idle"]
    /\ semTry = [f \in Files |-> 0]
    /\ sendTry = [f \in Files |-> 0]
    /\ result = [f \in Files |-> NoResult]
    /\ semaphore = 0
    /\ resultsBuffer = <<>>
    /\ bufferClosed = FALSE
    /\ forwarderDone = FALSE
    /\ resultsChan = <<>>
    /\ chanClosed = FALSE
    /\ fwdPc = "idle"
    /\ fwdResult = NoResult
    /\ fwdTry = 0
    /\ monitorPc = "idle"
    /\ aggPc = "idle"
    /\ tracker = ZeroTracker
    /\ stats = ZeroStats
    /\ statsSnapshot = ZeroStats
    /\ reported = ZeroTracker

\* ---- the parts of the state a specification does not use stay as they are here
ZeroWalkStats == [filesFound |-> 0, filesSkipped |-> 0, errorCount |-> 0]

CommandIdle ==
    /\ rootState = "ok"
    /\ cmdPc = "idle"
    /\ walkLeft = 0
    /\ walkStats = ZeroWalkStats
    /\ filesToProcess = 0
    /\ filesDone = 0
    /\ fileErrors = 0
    /\ scanErr = FALSE
    /\ exitCode = -1
    /\ debugMode = FALSE
    /\ walkLog = 0

StoreTasks == 1..NumStoreTasks

IdleStoreTask == [pc |-> "idle", path |-> 0, prefix |-> 0, force |-> FALSE, data |-> 0]

\* no search query has just run
NoQuery == [ran |-> FALSE, filter |-> 0, jpg |-> FALSE, pattern |-> 0, rows |-> {}]

StoreIdle ==
    /\ images = {}
    /\ nextId = 1
    /\ storeTask = [t \in StoreTasks |-> IdleStoreTask]
    /\ queried = NoQuery
    /\ fileData = [p \in 1..NumStorePaths |-> 1]

Records == 1..NumRecords

NoCand == [kind |-> "none", status |-> "unread", pass |-> FALSE, disk |-> "none",
           score |-> 0]

NoRow == [id |-> 0, kind |-> "none", related |-> FALSE, avgHashDistance |-> 0,
          pHashDistance |-> 0, pass |-> FALSE]

SearchIdle ==
    /\ searchOptions = [kind |-> "none", Threshold |-> 0, hashLen |-> 0]
    /\ searchPc = "idle"
    /\ rowIdx = 0
    /\ cand = [i \in Records |-> NoCand]
    /\ searchSem = 0
    /\ matches = <<>>
    /\ searchResult = <<>>
    /\ lastRow = NoRow

DecodeCalls == 1..NumDecodeCalls

NoPath == [area |-> "none", dir |-> 0, name |-> "none", key |-> 0]

IdleDecode == [pc |-> "idle", loader |-> "none", dir |-> 0, base |-> 0, stamp |-> 0,
               step |-> 0, tempPath |-> NoPath]

DecodeIdle ==
    /\ decode = [c \in DecodeCalls |-> IdleDecode]
    /\ tmpFiles = {}

NoImage == [fn |-> "none", rows |-> 0, cols |-> 0, kind |-> "none", param |-> 0]

NoHash == [done |-> FALSE, res |-> [err |-> FALSE, hash |-> <<>>]]

HashIdle ==
    /\ hashIn = NoImage
    /\ hashOut = NoHash

NoNames == [base1 |-> <<>>, base2 |-> <<>>]

NoRelation == [done |-> FALSE, related |-> FALSE]

NamesIdle ==
    /\ namesIn = NoNames
    /\ namesOut = NoRelation

VerifyIdle ==
    /\ verifyPc = "idle"
    /\ verification = <<>>
    /\ verifySem = 0
    /\ lastExit = "none"

NoHashes == [hash1 |-> <<>>, hash2 |-> <<>>]

NoDistance == [done |-> FALSE, distance |-> 0, swapped |-> 0]

DistanceIdle ==
    /\ distIn = NoHashes
    /\ distOut = NoDistance

\* no scan is running
ScanIdle ==
    /\ PipeInit
    /\ options = [MaxWorkers |-> 0, ForceRewrite |-> FALSE]
    /\ now = 0
    /\ mtime = [f \in Files |-> 0]
    /\ content = [f \in Files |-> 0]
    /\ store = [f \in Files |-> NoRecord]
    /\ how = [f \in Files |-> "none"]
    /\ last = NoTask
    /\ clean = [f \in Files |-> FALSE]
    /\ recovery = "no"

\* A folder that was indexed before: file 1 has an up-to-date row, the others have none
Init ==
    /\ PipeInit
    /\ options \in [MaxWorkers : 0..MaxConfigWorkers, ForceRewrite : BOOLEAN]
    /\ now = TicksPerSecond
    /\ mtime = [f \in Files |-> 0]
    /\ content = [f \in Files |-> 0]
    /\ store = [f \in Files |-> IF f = 1 THEN Row(0, 0, ComputeImageHashes(0)) ELSE NoRecord]
    /\ how = [f \in Files |-> "none"]
    /\ last = NoTask
    /\ clean = [f \in Files |-> FALSE]
    /\ recovery = "no"
    /\ CommandIdle
    /\ StoreIdle
    /\ SearchIdle
    /\ DecodeIdle
    /\ DistanceIdle
    /\ VerifyIdle
    /\ NamesIdle
    /\ HashIdle

\* ---- main goroutine: ScanAndStoreFolder and walkAndProcessFiles
\* ScanAndStoreFolder up to the chunk loop: channels made, tracker, forwarder and
\* monitor goroutines started, directory walked
StartScan ==
    /\ mainPc = "start"
    /\ mainPc' = "launch"
    /\ fwdPc' = "recv"
    /\ monitorPc' = "run"
    /\ aggPc' = "run"
    /\ UNCHANGED <<options, chunkStart, fwdResult, fwdTry, tracker, semaphore, stats>>
    /\ UNCHANGED <<workerVars, bufVars, chanVars, outVars, dataVars, fileVars>>
    /\ UNCHANGED <<recovery, extVars>>

ChunkEnd == IF chunkStart + ChunkSize > NumFiles THEN NumFiles ELSE chunkStart + ChunkSize

CurrentChunk == (chunkStart + 1)..ChunkEnd

\* the worker launch loop of one chunk
LaunchChunk ==
    /\ mainPc = "launch"
    /\ wpc' = [f \in Files |-> IF f \in CurrentChunk THEN "acquire" ELSE wpc[f]]
    /\ mainPc' = "chunkwait"
    /\ UNCHANGED <<chunkStart, semTry, sendTry, result, semaphore, stats, monitorPc>>
    /\ UNCHANGED <<bufVars, chanVars, fwdVars, aggVars, outVars, cfgVars, dataVars, fileVars>>
    /\ UNCHANGED <<recovery, extVars>>

\* fileWorkersWg.Wait() returns; next chunk or shutdown
ChunkDone ==
    /\ mainPc = "chunkwait"
    /\ \A f \in CurrentChunk : wpc[f] = "done"
    /\ chunkStart' = chunkStart + ChunkSize
    /\ mainPc' = IF chunkStart + ChunkSize < NumFiles THEN "launch" ELSE "stop"
    /\ UNCHANGED <<semaphore, stats, monitorPc>>
    /\ UNCHANGED <<workerVars, bufVars, chanVars, fwdVars, aggVars, outVars, cfgVars,
                   dataVars, fileVars>>
    /\ UNCHANGED <<recovery, extVars>>

\* faulty variant of SignalStop: resultsBuffer is closed but forwarderDone is not,
\* so the buffer monitor never leaves its select
SignalStopBufferOnly ==
    /\ mainPc = "stop"
    /\ bufferClosed' = TRUE
    /\ mainPc' = "waitfwd"
    /\ UNCHANGED <<chunkStart, resultsBuffer, forwarderDone, semaphore, stats, monitorPc>>
    /\ UNCHANGED <<workerVars, chanVars, fwdVars, aggVars, outVars, cfgVars, dataVars, fileVars>>
    /\ UNCHANGED <<recovery, extVars>>

\* close(forwarderDone); close(resultsBuffer)
SignalStop ==
    /\ mainPc = "stop"
    /\ forwarderDone' = TRUE
    /\ bufferClosed' = TRUE
    /\ mainPc' = "waitfwd"
    /\ UNCHANGED <<chunkStart, resultsBuffer, semaphore, stats, monitorPc>>
    /\ UNCHANGED <<workerVars, chanVars, fwdVars, aggVars, outVars, cfgVars, dataVars, fileVars>>
    /\ UNCHANGED <<recovery, extVars>>

\* <-resultsForwarderCompleted
ForwarderCompleted ==
    /\ mainPc = "waitfwd"
    /\ fwdPc = "done"
    /\ mainPc' = "waitmon"
    /\ UNCHANGED <<chunkStart, semaphore, stats, monitorPc>>
    /\ UNCHANGED <<workerVars, bufVars, chanVars, fwdVars, aggVars, outVars, cfgVars,
                   dataVars, fileVars>>
    /\ UNCHANGED <<recovery, extVars>>

\* <-time.After(30 * time.Second): "continuing anyway"
ForwarderWaitTimeout ==
    /\ mainPc = "waitfwd"
    /\ fwdPc # "done"
    /\ mainPc' = "waitmon"
    /\ UNCHANGED <<chunkStart, semaphore, stats, monitorPc>>
    /\ UNCHANGED <<workerVars, bufVars, chanVars, fwdVars, aggVars, outVars, cfgVars,
                   dataVars, fileVars>>
    /\ UNCHANGED <<recovery, extVars>>

\* <-bufferMonitorDone, the final stats snapshot, return to ScanAndStoreFolder,
\* wg.Wait() and close(resultsChan)
WalkReturn ==
    /\ mainPc = "waitmon"
    /\ monitorPc = "done"
    /\ statsSnapshot' = stats
    /\ chanClosed' = TRUE
    /\ mainPc' = "sleep"
    /\ UNCHANGED <<chunkStart, resultsChan, reported, semaphore, stats, monitorPc>>
    /\ UNCHANGED <<workerVars, bufVars, fwdVars, aggVars, cfgVars, dataVars, fileVars>>
    /\ UNCHANGED <<recovery, extVars>>

\* after time.Sleep(100ms): close(semaphore), PrintCompletionStats
PrintCompletionStats ==
    /\ mainPc = "sleep"
    /\ reported' = tracker
    /\ mainPc' = "stopping"
    /\ UNCHANGED <<chunkStart, statsSnapshot, semaphore, stats, monitorPc>>
    /\ UNCHANGED <<workerVars, bufVars, chanVars, fwdVars, aggVars, cfgVars, dataVars, fileVars>>
    /\ UNCHANGED <<recovery, extVars>>

\* deferred progressTracker.Stop(): displayProgress takes the value from p.done
Stop ==
    /\ mainPc = "stopping"
    /\ mainPc' = "done"
    /\ UNCHANGED <<chunkStart, semaphore, stats, monitorPc>>
    /\ UNCHANGED <<workerVars, bufVars, chanVars, fwdVars, aggVars, outVars, cfgVars,
                   dataVars, fileVars>>
    /\ UNCHANGED <<recovery, extVars>>

\* ---- buffer monitor goroutine
MonitorExit ==
    /\ monitorPc = "run"
    /\ forwarderDone
    /\ monitorPc' = "done"
    /\ UNCHANGED <<semaphore, stats>>
    /\ UNCHANGED <<mainVars, workerVars, bufVars, chanVars, fwdVars, aggVars, outVars,
                   cfgVars, dataVars, fileVars>>
    /\ UNCHANGED <<recovery, extVars>>

\* ---- worker goroutine of file f
\* semaphore <- struct{}{}
Acquire(f) ==
    /\ wpc[f] = "acquire"
    /\ semaphore < maxWorkers
    /\ semaphore' = semaphore + 1
    /\ wpc' = [wpc EXCEPT ![f] = "acquired"]
    /\ semTry' = [semTry EXCEPT ![f] = 0]
    /\ UNCHANGED <<sendTry, result, stats, monitorPc>>
    /\ UNCHANGED <<mainVars, bufVars, chanVars, fwdVars, aggVars, outVars, cfgVars,
                   dataVars, fileVars>>
    /\ UNCHANGED <<recovery, extVars>>

\* stats.semaphoreAcquisitions++ under stats.Lock(), after the slot was taken
CountAcquisition(f) ==
    /\ wpc[f] = "acquired"
    /\ stats' = [stats EXCEPT !.semaphoreAcquisitions = @ + 1]
    /\ wpc' = [wpc EXCEPT ![f] = "process"]
    /\ UNCHANGED <<semTry, sendTry, result, semaphore, monitorPc>>
    /\ UNCHANGED <<mainVars, bufVars, chanVars, fwdVars, aggVars, outVars, cfgVars,
                   dataVars, fileVars>>
    /\ UNCHANGED <<recovery, extVars>>

\* faulty variant of Abandon: the worker returns without counting
AbandonUncounted(st) == st

\* lines 461-471: the task is given up and counted
Abandon(st) == [st EXCEPT !.semaphoreAbandonments = @ + 1]

\* <-time.After(3 * time.Second) while the semaphore is full; the third one abandons
SemaphoreTimeout(f) ==
    /\ wpc[f] = "acquire"
    /\ semaphore >= maxWorkers
    /\ IF semTry[f] + 1 >= SemaphoreAttempts
       THEN /\ stats' = Abandon([stats EXCEPT !.semaphoreTimeouts = @ + 1])
            /\ wpc' = [wpc EXCEPT ![f] = "done"]
            /\ how' = [how EXCEPT ![f] = "abandoned"]
            /\ semTry' = [semTry EXCEPT ![f] = 0]
       ELSE /\ stats' = [stats EXCEPT !.semaphoreTimeouts = @ + 1]
            /\ semTry' = [semTry EXCEPT ![f] = @ + 1]
            /\ UNCHANGED <<wpc, how>>
    /\ UNCHANGED <<sendTry, result, semaphore, monitorPc, store, last>>
    /\ UNCHANGED <<mainVars, bufVars, chanVars, fwdVars, aggVars, outVars, cfgVars, fileVars>>
    /\ UNCHANGED <<recovery, extVars>>

\* the recover()-wrapped call of processAndStoreImage and stats.filesProcessed++
Process(f) ==
    /\ wpc[f] = "process"
    /\ \E env \in Envs : RunTask(f, env)
    /\ stats' = [stats EXCEPT !.filesProcessed = @ + 1]
    /\ wpc' = [wpc EXCEPT ![f] = "send"]
    /\ UNCHANGED <<semTry, sendTry, semaphore, monitorPc, last>>
    /\ UNCHANGED fileVars
    /\ UNCHANGED <<mainVars, bufVars, chanVars, fwdVars, aggVars, outVars, cfgVars>>
    /\ UNCHANGED <<recovery, extVars>>

\* faulty variant of WorkerAfterSend: the retry loop goes on after a send
WorkerAfterSendRetries == "send"

\* where the worker is after its send succeeded: "if sendSuccess { break }"
\* leaves the retry loop
WorkerAfterSend == "exit"

\* resultsBuffer <- result
SendToBuffer(f) ==
    /\ wpc[f] = "send"
    /\ Len(resultsBuffer) < BufferSize
    /\ resultsBuffer' = Append(resultsBuffer, result[f])
    /\ stats' = [stats EXCEPT !.resultsSent = @ + 1]
    /\ wpc' = [wpc EXCEPT ![f] = WorkerAfterSend]
    /\ sendTry' = [sendTry EXCEPT ![f] = 0]
    /\ UNCHANGED <<semTry, result, semaphore, monitorPc, bufferClosed, forwarderDone>>
    /\ UNCHANGED <<mainVars, chanVars, fwdVars, aggVars, outVars, cfgVars, dataVars, fileVars>>
    /\ UNCHANGED <<recovery, extVars>>

\* <-time.After(timeout) while the buffer is full; the fourth one drops the result
SendTimeout(f) ==
    /\ wpc[f] = "send"
    /\ Len(resultsBuffer) >= BufferSize
    /\ IF sendTry[f] + 1 >= WorkerSendAttempts
       THEN /\ stats' = [stats EXCEPT !.bufferOverflows = @ + 1]
            /\ wpc' = [wpc EXCEPT ![f] = "exit"]
            /\ sendTry' = [sendTry EXCEPT ![f] = 0]
       ELSE /\ sendTry' = [sendTry EXCEPT ![f] = @ + 1]
            /\ UNCHANGED <<stats, wpc>>
    /\ UNCHANGED <<semTry, result, semaphore, monitorPc>>
    /\ UNCHANGED <<mainVars, bufVars, chanVars, fwdVars, aggVars, outVars, cfgVars,
                   dataVars, fileVars>>
    /\ UNCHANGED <<recovery, extVars>>

\* the deferred release of the slot: <-semaphore
WorkerExit(f) ==
    /\ wpc[f] = "exit"
    /\ semaphore' = semaphore - 1
    /\ wpc' = [wpc EXCEPT ![f] = "released"]
    /\ UNCHANGED <<semTry, sendTry, result, stats, monitorPc>>
    /\ UNCHANGED <<mainVars, bufVars, chanVars, fwdVars, aggVars, outVars, cfgVars,
                   dataVars, fileVars>>
    /\ UNCHANGED <<recovery, extVars>>

\* the rest of the deferred functions: stats.semaphoreReleases++ under
\* stats.Lock(), then fileWorkersWg.Done() and wg.Done()
CountRelease(f) ==
    /\ wpc[f] = "released"
    /\ stats' = [stats EXCEPT !.semaphoreReleases = @ + 1]
    /\ wpc' = [wpc EXCEPT ![f] = "done"]
    /\ UNCHANGED <<semTry, sendTry, result, semaphore, monitorPc>>
    /\ UNCHANGED <<mainVars, bufVars, chanVars, fwdVars, aggVars, outVars, cfgVars,
                   dataVars, fileVars>>
    /\ UNCHANGED <<recovery, extVars>>

\* ---- result forwarder goroutine
\* case result, ok := <-resultsBuffer (ok)
FwdReceive ==
    /\ fwdPc = "recv"
    /\ resultsBuffer # <<>>
    /\ fwdResult' = Head(resultsBuffer)
    /\ resultsBuffer' = Tail(resultsBuffer)
    /\ fwdTry' = 0
    /\ fwdPc' = "forward"
    /\ UNCHANGED <<bufferClosed, forwarderDone, semaphore, stats, monitorPc>>
    /\ UNCHANGED <<mainVars, workerVars, chanVars, aggVars, outVars, cfgVars, dataVars, fileVars>>
    /\ UNCHANGED <<recovery, extVars>>

\* case result, ok := <-resultsBuffer (!ok): buffer closed and drained
FwdBufferClosed ==
    /\ fwdPc = "recv"
    /\ bufferClosed
    /\ resultsBuffer = <<>>
    /\ fwdPc' = "done"
    /\ UNCHANGED <<fwdResult, fwdTry, semaphore, stats, monitorPc>>
    /\ UNCHANGED <<mainVars, workerVars, bufVars, chanVars, aggVars, outVars, cfgVars,
                   dataVars, fileVars>>
    /\ UNCHANGED <<recovery, extVars>>

\* case <-forwarderDone of the outer select
FwdStop ==
    /\ fwdPc = "recv"
    /\ forwarderDone
    /\ fwdPc' = "done"
    /\ UNCHANGED <<fwdResult, fwdTry, semaphore, stats, monitorPc>>
    /\ UNCHANGED <<mainVars, workerVars, bufVars, chanVars, aggVars, outVars, cfgVars,
                   dataVars, fileVars>>
    /\ UNCHANGED <<recovery, extVars>>

\* case resultsChan <- result
FwdSend ==
    /\ fwdPc = "forward"
    /\ ~chanClosed
    /\ Len(resultsChan) < ResultsChanCap
    /\ resultsChan' = Append(resultsChan, fwdResult)
    /\ stats' = [stats EXCEPT !.resultsForwarded = @ + 1]
    /\ fwdResult' = NoResult
    /\ fwdTry' = 0
    /\ fwdPc' = "recv"
    /\ UNCHANGED <<chanClosed, semaphore, monitorPc>>
    /\ UNCHANGED <<mainVars, workerVars, bufVars, aggVars, outVars, cfgVars, dataVars, fileVars>>
    /\ UNCHANGED <<recovery, extVars>>

\* case <-time.After(timeout) while resultsChan is full; after the third one the
\* result is given up and stats.sendTimeouts++
FwdTimeout ==
    /\ fwdPc = "forward"
    /\ ~chanClosed
    /\ ~forwarderDone
    /\ Len(resultsChan) >= ResultsChanCap
    /\ IF fwdTry + 1 >= ForwardAttempts
       THEN /\ stats' = [stats EXCEPT !.sendTimeouts = @ + 1]
            /\ fwdResult' = NoResult
            /\ fwdTry' = 0
            /\ fwdPc' = "recv"
       ELSE /\ fwdTry' = fwdTry + 1
            /\ UNCHANGED <<stats, fwdResult, fwdPc>>
    /\ UNCHANGED <<semaphore, monitorPc>>
    /\ UNCHANGED <<mainVars, workerVars, bufVars, chanVars, aggVars, outVars, cfgVars,
                   dataVars, fileVars>>
    /\ UNCHANGED <<recovery, extVars>>

\* case <-forwarderDone of the inner select: the result in hand is given up
FwdStopForwarding ==
    /\ fwdPc = "forward"
    /\ forwarderDone
    /\ fwdResult' = NoResult
    /\ fwdTry' = 0
    /\ fwdPc' = "done"
    /\ UNCHANGED <<semaphore, stats, monitorPc>>
    /\ UNCHANGED <<mainVars, workerVars, bufVars, chanVars, aggVars, outVars, cfgVars,
                   dataVars, fileVars>>
    /\ UNCHANGED <<recovery, extVars>>

\* resultsChan <- result on the closed channel: panic, recovered by the deferred func
FwdPanic ==
    /\ fwdPc = "forward"
    /\ chanClosed
    /\ fwdResult' = NoResult
    /\ fwdTry' = 0
    /\ fwdPc' = "done"
    /\ UNCHANGED <<semaphore, stats, monitorPc>>
    /\ UNCHANGED <<mainVars, workerVars, bufVars, chanVars, aggVars, outVars, cfgVars,
                   dataVars, fileVars>>
    /\ UNCHANGED <<recovery, extVars>>

\* ---- ProgressTracker.processResults goroutine
\* one iteration of "for result := range resultsChan"
ProcessResult ==
    /\ aggPc = "run"
    /\ resultsChan # <<>>
    /\ tracker' = [processed |-> tracker.processed + 1,
                   errors |-> tracker.errors + (IF Head(resultsChan).Success THEN 0 ELSE 1)]
    /\ resultsChan' = Tail(resultsChan)
    /\ UNCHANGED <<aggPc, chanClosed, semaphore, stats, monitorPc>>
    /\ UNCHANGED <<mainVars, workerVars, bufVars, fwdVars, outVars, cfgVars, dataVars, fileVars>>
    /\ UNCHANGED <<recovery, extVars>>

\* the range loop ends: channel closed and drained
ProcessResultsExit ==
    /\ aggPc = "run"
    /\ chanClosed
    /\ resultsChan = <<>>
    /\ aggPc' = "done"
    /\ UNCHANGED <<tracker, semaphore, stats, monitorPc>>
    /\ UNCHANGED <<mainVars, workerVars, bufVars, chanVars, fwdVars, outVars, cfgVars,
                   dataVars, fileVars>>
    /\ UNCHANGED <<recovery, extVars>>

Next ==
    \/ StartScan
    \/ LaunchChunk
    \/ ChunkDone
    \/ SignalStop
    \/ ForwarderCompleted
    \/ ForwarderWaitTimeout
    \/ WalkReturn
    \/ PrintCompletionStats
    \/ Stop
    \/ MonitorExit
    \/ \E f \in Files : Acquire(f)
    \/ \E f \in Files : CountAcquisition(f)
    \/ \E f \in Files : SemaphoreTimeout(f)
    \/ \E f \in Files : Process(f)
    \/ \E f \in Files : SendToBuffer(f)
    \/ \E f \in Files : SendTimeout(f)
    \/ \E f \in Files : WorkerExit(f)
    \/ \E f \in Files : CountRelease(f)
    \/ FwdReceive
    \/ FwdBufferClosed
    \/ FwdStop
    \/ FwdSend
    \/ FwdTimeout
    \/ FwdStopForwarding
    \/ FwdPanic
    \/ ProcessResult
    \/ ProcessResultsExit

Spec == Init /\ [][Next]_vars

\* ------------------------------------------------- successive scans
\* SpecRescan: the folder is scanned again and again. Every task gets its slot
\* (no more files than worker slots), so a scan is one processAndStoreImage per
\* file, in any order; the clock advances and files are modified in between.
RescanFiles == 1..NumRescanFiles

InitRescan ==
    /\ PipeInit
    /\ options = [MaxWorkers |-> 0, ForceRewrite |-> FALSE]
    /\ now = 0
    /\ mtime = [f \in Files |-> 0]
    /\ content = [f \in Files |-> 0]
    /\ store = [f \in Files |-> NoRecord]
    /\ how = [f \in Files |-> "none"]
    /\ last = NoTask
    /\ clean = [f \in Files |-> FALSE]
    /\ recovery = "no"
    /\ CommandIdle
    /\ StoreIdle
    /\ SearchIdle
    /\ DecodeIdle
    /\ DistanceIdle
    /\ VerifyIdle
    /\ NamesIdle
    /\ HashIdle

\* ScanAndStoreFolder is called with forceRewrite = force
BeginScan(force) ==
    /\ mainPc = "start"
    /\ options' = [options EXCEPT !.ForceRewrite = force]
    /\ how' = [f \in Files |-> "none"]
    /\ result' = [f \in Files |-> NoResult]
    /\ mainPc' = "scanning"
    /\ last' = NoTask
    /\ UNCHANGED <<chunkStart, semaphore, stats, monitorPc, store>>
    /\ UNCHANGED <<wpc, semTry, sendTry>>
    /\ UNCHANGED <<bufVars, chanVars, fwdVars, aggVars, outVars, fileVars>>
    /\ recovery' = IF recovery = "recovered" THEN "no" ELSE recovery
    /\ UNCHANGED extVars

\* the worker of file f runs its task
ProcessFile(f) ==
    /\ mainPc = "scanning"
    /\ how[f] = "none"
    /\ \E env \in Envs : RunTask(f, env) /\ Remember(f, env)
    /\ UNCHANGED <<wpc, semTry, sendTry, semaphore, stats, monitorPc, mtime, content, now>>
    /\ UNCHANGED <<mainVars, bufVars, chanVars, fwdVars, aggVars, outVars, cfgVars>>
    /\ UNCHANGED recovery
    /\ UNCHANGED extVars

\* every worker has finished: ScanAndStoreFolder returns
EndScan ==
    /\ mainPc = "scanning"
    /\ \A f \in RescanFiles : how[f] # "none"
    /\ mainPc' = "start"
    /\ last' = NoTask
    /\ UNCHANGED <<chunkStart, semaphore, stats, monitorPc, store, how>>
    /\ UNCHANGED <<workerVars, bufVars, chanVars, fwdVars, aggVars, outVars, cfgVars,
                   fileVars>>
    /\ recovery' = IF recovery = "yes" THEN "recovered" ELSE recovery
    /\ UNCHANGED extVars

\* the clock advances by one tick
Tick ==
    /\ now < MaxTick
    /\ now' = now + 1
    /\ last' = NoTask
    /\ UNCHANGED <<mtime, content, clean, semaphore, stats, monitorPc, store, how>>
    /\ UNCHANGED <<mainVars, workerVars, bufVars, chanVars, fwdVars, aggVars, outVars,
                   cfgVars>>
    /\ UNCHANGED recovery
    /\ UNCHANGED extVars

\* file f is modified: new content, modification time now
Touch(f) ==
    /\ mtime[f] < now
    /\ mtime' = [mtime EXCEPT ![f] = now]
    /\ content' = [content EXCEPT ![f] = now]
    /\ clean' = [clean EXCEPT ![f] = FALSE]
    /\ last' = NoTask
    /\ UNCHANGED <<now, semaphore, stats, monitorPc, store, how>>
    /\ UNCHANGED <<mainVars, workerVars, bufVars, chanVars, fwdVars, aggVars, outVars,
                   cfgVars>>
    /\ UNCHANGED recovery
    /\ UNCHANGED extVars

\* SIGINT or SIGTERM while the scan runs: the signal handler calls os.Exit(0);
\* the tasks that have not stored their row yet never do
Interrupt ==
    /\ mainPc = "scanning"
    /\ mainPc' = "start"
    /\ recovery' = "yes"
    /\ last' = NoTask
    /\ UNCHANGED <<chunkStart, semaphore, stats, monitorPc, store, how>>
    /\ UNCHANGED <<workerVars, bufVars, chanVars, fwdVars, aggVars, outVars, cfgVars,
                   fileVars>>
    /\ UNCHANGED extVars

NextRescan ==
    \/ \E force \in BOOLEAN : BeginScan(force)
    \/ \E f \in RescanFiles : ProcessFile(f)
    \/ EndScan
    \/ Interrupt
    \/ Tick
    \/ \E f \in RescanFiles : Touch(f)

SpecRescan == InitRescan /\ [][NextRescan]_vars

\* ------------------------------------------------- the scan command
\* SpecCommand: handleScanCommand from its check of the folder to the exit of
\* the process. The directory walk is followed entry by entry; the pipeline of
\* Spec is reduced to one step per worker, which succeeds or fails.
\* rootState: "ok" (a directory that can be listed), "statFails" (os.Stat fails:
\* it does not exist or cannot be reached), "notDir", "unreadable" (os.Stat
\* succeeds, the directory cannot be opened)
RootStates == {"ok", "statFails", "notDir", "unreadable"}

\* what filepath.Walk hands to the callback for an entry below the root
EntryKinds == {"error", "dir", "other", "image"}

InitCommand ==
    /\ ScanIdle
    /\ StoreIdle
    /\ SearchIdle
    /\ DecodeIdle
    /\ DistanceIdle
    /\ VerifyIdle
    /\ NamesIdle
    /\ HashIdle
    /\ rootState \in RootStates
    /\ cmdPc = "stat"
    /\ walkLeft = NumEntries
    /\ walkStats = ZeroWalkStats
    /\ filesToProcess = 0
    /\ filesDone = 0
    /\ fileErrors = 0
    /\ scanErr = FALSE
    /\ exitCode = -1
    /\ debugMode \in BOOLEAN
    /\ walkLog = 0

\* os.Stat(folderPath) and folderInfo.IsDir(): log.Fatalf exits with status 1
StatFolder ==
    /\ cmdPc = "stat"
    /\ IF rootState \in {"statFails", "notDir"}
       THEN cmdPc' = "exited" /\ exitCode' = 1
       ELSE cmdPc' = "walk" /\ UNCHANGED exitCode
    /\ UNCHANGED <<rootState, walkLeft, walkStats, filesToProcess, filesDone, fileErrors,
                   scanErr>>
    /\ UNCHANGED <<debugMode, walkLog>>
    /\ UNCHANGED <<scanVars, recovery, distVars, verifyVars, nameVars, hashVars, decodeVars, tableVars, searchVars>>

\* the folder is removed, unmounted or closed to the user after the check
RootLost ==
    /\ cmdPc = "walk"
    /\ rootState = "ok"
    /\ rootState' \in {"statFails", "unreadable"}
    /\ UNCHANGED <<cmdPc, walkLeft, walkStats, filesToProcess, filesDone, fileErrors,
                   scanErr, exitCode>>
    /\ UNCHANGED <<debugMode, walkLog>>
    /\ UNCHANGED <<scanVars, recovery, distVars, verifyVars, nameVars, hashVars, decodeVars, tableVars, searchVars>>

\* the callback of filepath.Walk in walkAndProcessFiles: the counters after an
\* entry of this kind; it returns nil for every kind
WalkFunc(st, kind) ==
    CASE kind = "error" -> [st EXCEPT !.errorCount = @ + 1]
      [] kind = "dir"   -> st
      [] kind = "other" -> [st EXCEPT !.filesFound = @ + 1, !.filesSkipped = @ + 1]
      [] kind = "image" -> [st EXCEPT !.filesFound = @ + 1]

\* the log after the callback ran for an entry of this kind: LogError is
\* called under "if options.DebugMode"
WalkLogged(log, kind, debug) == IF kind = "error" /\ debug THEN log + 1 ELSE log

\* filepath.Walk on the root: Lstat fails, or the directory cannot be read, and
\* the callback is called with the error and returns nil, so Walk returns nil
\* with nothing enumerated; otherwise the entries follow
WalkRoot ==
    /\ cmdPc = "walk"
    /\ IF rootState = "ok"
       THEN /\ cmdPc' = "walking"
            /\ UNCHANGED <<walkLeft, walkStats, walkLog>>
       ELSE /\ cmdPc' = "process"
            /\ walkLeft' = 0
            /\ walkStats' = WalkFunc(walkStats, "error")
            /\ walkLog' = WalkLogged(walkLog, "error", debugMode)
    /\ UNCHANGED debugMode
    /\ UNCHANGED <<rootState, filesToProcess, filesDone, fileErrors, scanErr, exitCode>>
    /\ UNCHANGED <<scanVars, recovery, distVars, verifyVars, nameVars, hashVars, decodeVars, tableVars, searchVars>>

\* one call of the callback for an entry below the root
WalkEntry(kind) ==
    /\ cmdPc = "walking"
    /\ walkLeft > 0
    /\ walkLeft' = walkLeft - 1
    /\ walkStats' = WalkFunc(walkStats, kind)
    /\ walkLog' = WalkLogged(walkLog, kind, debugMode)
    /\ filesToProcess' = IF kind = "image" THEN filesToProcess + 1 ELSE filesToProcess
    /\ UNCHANGED debugMode
    /\ UNCHANGED <<rootState, cmdPc, filesDone, fileErrors, scanErr, exitCode>>
    /\ UNCHANGED <<scanVars, recovery, distVars, verifyVars, nameVars, hashVars, decodeVars, tableVars, searchVars>>

\* filepath.Walk returns: its error is the callback's, which is always nil
WalkEnd ==
    /\ cmdPc = "walking"
    /\ walkLeft = 0
    /\ cmdPc' = "process"
    /\ UNCHANGED <<rootState, walkLeft, walkStats, filesToProcess, filesDone, fileErrors,
                   scanErr, exitCode>>
    /\ UNCHANGED <<debugMode, walkLog>>
    /\ UNCHANGED <<scanVars, recovery, distVars, verifyVars, nameVars, hashVars, decodeVars, tableVars, searchVars>>

\* the worker of one enumerated file ends, with or without a failure
WorkerDone(ok) ==
    /\ cmdPc = "process"
    /\ filesDone < filesToProcess
    /\ filesDone' = filesDone + 1
    /\ fileErrors' = IF ok THEN fileErrors ELSE fileErrors + 1
    /\ UNCHANGED <<rootState, cmdPc, walkLeft, walkStats, filesToProcess, scanErr, exitCode>>
    /\ UNCHANGED <<debugMode, walkLog>>
    /\ UNCHANGED <<scanVars, recovery, distVars, verifyVars, nameVars, hashVars, decodeVars, tableVars, searchVars>>

\* walkAndProcessFiles returns err (the nil of the walk) and ScanAndStoreFolder
\* returns it
ScanReturn ==
    /\ cmdPc = "process"
    /\ filesDone = filesToProcess
    /\ scanErr' = FALSE
    /\ cmdPc' = "returned"
    /\ UNCHANGED <<rootState, walkLeft, walkStats, filesToProcess, filesDone, fileErrors,
                   exitCode>>
    /\ UNCHANGED <<debugMode, walkLog>>
    /\ UNCHANGED <<scanVars, recovery, distVars, verifyVars, nameVars, hashVars, decodeVars, tableVars, searchVars>>

\* handleScanCommand: errChan -> log.Fatalf (status 1), doneChan -> status 0
CommandExit ==
    /\ cmdPc = "returned"
    /\ exitCode' = IF scanErr THEN 1 ELSE 0
    /\ cmdPc' = "exited"
    /\ UNCHANGED <<rootState, walkLeft, walkStats, filesToProcess, filesDone, fileErrors,
                   scanErr>>
    /\ UNCHANGED <<debugMode, walkLog>>
    /\ UNCHANGED <<scanVars, recovery, distVars, verifyVars, nameVars, hashVars, decodeVars, tableVars, searchVars>>

NextCommand ==
    \/ StatFolder
    \/ RootLost
    \/ WalkRoot
    \/ \E kind \in EntryKinds : WalkEntry(kind)
    \/ WalkEnd
    \/ \E ok \in BOOLEAN : WorkerDone(ok)
    \/ ScanReturn
    \/ CommandExit

SpecCommand == InitCommand /\ [][NextCommand]_vars

\* ------------------------------------------------- the images table
\* SpecStore: scan tasks writing table images through the SQL statements of
\* StoreImageInfo, each task in two steps (CheckImageExists and the decode,
\* then the INSERT) that interleave with the steps of the other tasks and with
\* changes of the files. A row is [id, path, prefix, data], data being the
\* version of the file content its hashes were computed from; a statement is
\* atomic, as SQLite executes it.
StorePaths == 1..NumStorePaths

Prefixes == 1..NumPrefixes

\* the rows that conflict with (path, prefix) under UNIQUE(path, source_prefix);
\* imageInfo.SourcePrefix is a Go string, so source_prefix is never NULL
Conflicts(tbl, path, prefix) == {r \in tbl : r.path = path /\ r.prefix = prefix}

NewRow(id, path, prefix, data) == [id |-> id, path |-> path, prefix |-> prefix, data |-> data]

\* faulty variant of InsertOrIgnore: the table has no unique constraint
InsertUnchecked(tbl, id, path, prefix, data) == tbl \cup {NewRow(id, path, prefix, data)}

\* faulty variant of InsertOrIgnore: a conflicting row is overwritten
InsertOrOverwrite(tbl, id, path, prefix, data) ==
    {r \in tbl : r.path # path \/ r.prefix # prefix} \cup {NewRow(id, path, prefix, data)}

\* INSERT OR IGNORE INTO images: a conflicting row makes the statement a no-op
InsertOrIgnore(tbl, id, path, prefix, data) ==
    IF Conflicts(tbl, path, prefix) = {}
    THEN tbl \cup {NewRow(id, path, prefix, data)}
    ELSE tbl

\* INSERT OR REPLACE INTO images: the conflicting rows are deleted first
InsertOrReplace(tbl, id, path, prefix, data) ==
    (tbl \ Conflicts(tbl, path, prefix)) \cup {NewRow(id, path, prefix, data)}

\* StoreImageInfo, as a statement on the table
StoreImageInfoStmt(tbl, id, path, prefix, data, forceRewrite) ==
    IF forceRewrite
    THEN InsertOrReplace(tbl, id, path, prefix, data)
    ELSE InsertOrIgnore(tbl, id, path, prefix, data)

InitStore ==
    /\ ScanIdle
    /\ CommandIdle
    /\ SearchIdle
    /\ DecodeIdle
    /\ DistanceIdle
    /\ VerifyIdle
    /\ NamesIdle
    /\ HashIdle
    /\ StoreIdle

\* a scan task starts on a file: its key and the ForceRewrite of its scan
StartStoreTask(t, path, prefix, force) ==
    /\ storeTask[t].pc = "idle"
    /\ storeTask' = [storeTask EXCEPT ![t] =
           [pc |-> "check", path |-> path, prefix |-> prefix, force |-> force,
            data |-> 0]]
    /\ queried' = NoQuery
    /\ UNCHANGED <<images, nextId, fileData>>
    /\ UNCHANGED <<scanVars, recovery, distVars, verifyVars, nameVars, hashVars, decodeVars, cmdVars, searchVars>>

\* processAndStoreImage up to the store: without ForceRewrite the task asks
\* CheckImageExists and skips a stored file that was not modified since;
\* otherwise it decodes the file as it is now and computes its hashes
CheckStoreTask(t, modified) ==
    /\ storeTask[t].pc = "check"
    /\ LET exists == Conflicts(images, storeTask[t].path, storeTask[t].prefix) # {}
       IN storeTask' = [storeTask EXCEPT ![t] =
              IF ~storeTask[t].force /\ exists /\ ~modified
              THEN [@ EXCEPT !.pc = "skipped"]
              ELSE [@ EXCEPT !.pc = "store", !.data = fileData[storeTask[t].path]]]
    /\ queried' = NoQuery
    /\ UNCHANGED <<images, nextId, fileData>>
    /\ UNCHANGED <<scanVars, recovery, distVars, verifyVars, nameVars, hashVars, decodeVars, cmdVars, searchVars>>

\* StoreImageInfo: the statement runs; AUTOINCREMENT hands out an id when a
\* row is inserted
StoreRow(t) ==
    /\ storeTask[t].pc = "store"
    /\ nextId <= MaxRowId
    /\ images' = StoreImageInfoStmt(images, nextId, storeTask[t].path,
                                    storeTask[t].prefix, storeTask[t].data,
                                    storeTask[t].force)
    /\ nextId' = IF images' = images THEN nextId ELSE nextId + 1
    /\ storeTask' = [storeTask EXCEPT ![t].pc = "stored"]
    /\ queried' = NoQuery
    /\ UNCHANGED fileData
    /\ UNCHANGED <<scanVars, recovery, distVars, verifyVars, nameVars, hashVars, decodeVars, cmdVars, searchVars>>

\* the task's goroutine ends; a later file or a later scan takes its place
EndStoreTask(t) ==
    /\ storeTask[t].pc \in {"skipped", "stored"}
    /\ storeTask' = [storeTask EXCEPT ![t] = IdleStoreTask]
    /\ queried' = NoQuery
    /\ UNCHANGED <<images, nextId, fileData>>
    /\ UNCHANGED <<scanVars, recovery, distVars, verifyVars, nameVars, hashVars, decodeVars, cmdVars, searchVars>>

\* the file at path is rewritten by its owner while scans are running
ModifyFile(path) ==
    /\ fileData[path] < NumFileVersions
    /\ fileData' = [fileData EXCEPT ![path] = @ + 1]
    /\ queried' = NoQuery
    /\ UNCHANGED <<images, nextId, storeTask>>
    /\ UNCHANGED <<scanVars, recovery, distVars, verifyVars, nameVars, hashVars, decodeVars, cmdVars, searchVars>>

\* the filters of a search: 0 is the empty options.SourcePrefix
PrefixFilters == {0} \cup Prefixes

\* SELECT ... FROM images WHERE source_prefix = ? OR ? = ''
QueryRows(tbl, filter) == {r \in tbl : r.prefix = filter \/ filter = 0}

\* the search patterns "%" + baseFilename + "%" of a JPG query: pattern 0 is
\* a base filename no stored path contains, pattern p one that path p contains
SearchPatterns == {0} \cup StorePaths

\* path LIKE ?
PathLike(path, pattern) == path = pattern

\* faulty variant of QueryRowsJpg: the WHERE clause without its parentheses,
\* source_prefix = ? OR ? = '' AND path LIKE ? OR 1=1
QueryRowsJpgUnparenthesised(tbl, filter, pattern) ==
    {r \in tbl : \/ r.prefix = filter
                 \/ filter = 0 /\ PathLike(r.path, pattern)
                 \/ TRUE}

\* the query of a JPG search: SELECT ... FROM images
\* WHERE (source_prefix = ? OR ? = '') AND (path LIKE ? OR 1=1)
QueryRowsJpg(tbl, filter, pattern) ==
    {r \in tbl : /\ r.prefix = filter \/ filter = 0
                 /\ PathLike(r.path, pattern) \/ TRUE}

\* faulty variant of TableAfterQuery: the rows read are consumed
TableAfterQueryConsumes(tbl, filter) == tbl \ QueryRows(tbl, filter)

\* the table once the query of FindSimilarImages has run: a SELECT changes
\* nothing, and FindSimilarImages runs no other statement
TableAfterQuery(tbl, filter) == tbl

\* a search (handleSearchCommand: OpenDatabase, FindSimilarImages) reads the
\* table while scan tasks are running
SearchQuery(filter, isJpgQuery, pattern) ==
    /\ isJpgQuery \/ pattern = 0
    /\ queried' = [ran |-> TRUE, filter |-> filter, jpg |-> isJpgQuery, pattern |-> pattern,
                   rows |-> IF isJpgQuery THEN QueryRowsJpg(images, filter, pattern)
                            ELSE QueryRows(images, filter)]
    /\ images' = TableAfterQuery(images, filter)
    /\ UNCHANGED <<nextId, storeTask, fileData>>
    /\ UNCHANGED <<scanVars, recovery, distVars, verifyVars, nameVars, hashVars, decodeVars, cmdVars, searchVars>>

NextStore ==
    \/ \E t \in StoreTasks, path \in StorePaths, prefix \in Prefixes, force \in BOOLEAN :
           StartStoreTask(t, path, prefix, force)
    \/ \E t \in StoreTasks, modified \in BOOLEAN : CheckStoreTask(t, modified)
    \/ \E t \in StoreTasks : StoreRow(t)
    \/ \E t \in StoreTasks : EndStoreTask(t)
    \/ \E path \in StorePaths : ModifyFile(path)
    \/ \E filter \in PrefixFilters, isJpgQuery \in BOOLEAN, pattern \in SearchPatterns :
           SearchQuery(filter, isJpgQuery, pattern)

SpecStore == InitStore /\ [][NextStore]_vars

\* ------------------------------------------------- the search
\* SpecSearch: one call of FindSimilarImages: the row loop, the verification
\* goroutines (at most SearchWorkers at a time) and the final sort. A path is
\* modelled by the class of its extension and by its base filename; a hash by
\* a string of HashLen characters; a score or a threshold by its hundredths.
\* "raw": isRawFormat holds; "jpg": isJpgFormat holds; "std": any other format
\* the loaders read (png, tiff, ...)
Kinds == {"raw", "jpg", "std"}

isRawFormat(kind) == kind = "raw"

isJpgFormat(kind) == kind = "jpg"

\* the hash functions the package holds: 8 bytes printed as 16 hexadecimal
\* characters (hash_utils.go), or 64 characters "0"/"1" (the functions defined
\* beside FindSimilarImages); which one a build links is not fixed by the source
HashLens == {HexHashLen, BitHashLen}

\* a hash string of len characters that differs from Hash(0, len) in its first
\* k characters
Hash(k, len) == [i \in 1..len |-> IF i <= k THEN "1" ELSE "0"]

\* how many leading characters of a stored hash differ from the query's
HashPrefixes == {0, 26}

\* faulty variant of CalculateHammingDistance: the characters the longer hash
\* has beyond the shorter one count as differences
CalculateHammingDistancePadded(hash1, hash2) ==
    LET minLen == IF Len(hash2) < Len(hash1) THEN Len(hash2) ELSE Len(hash1)
        maxLen == IF Len(hash2) < Len(hash1) THEN Len(hash1) ELSE Len(hash2)
    IN Cardinality({i \in 1..minLen : hash1[i] # hash2[i]}) + (maxLen - minLen)

\* faulty variant of CalculateHammingDistance: a differing character counts
\* for the 4 bits of a hexadecimal digit
CalculateHammingDistanceNibbles(hash1, hash2) ==
    LET minLen == IF Len(hash2) < Len(hash1) THEN Len(hash2) ELSE Len(hash1)
    IN 4 * Cardinality({i \in 1..minLen : hash1[i] # hash2[i]})

CalculateHammingDistance(hash1, hash2) ==
    LET minLen == IF Len(hash2) < Len(hash1) THEN Len(hash2) ELSE Len(hash1)
    IN Cardinality({i \in 1..minLen : hash1[i] # hash2[i]})

\* the distance of the query's hash to each stored hash, per hash length
HashDistance ==
    [len \in HashLens |->
        [k \in HashPrefixes |-> CalculateHammingDistance(Hash(0, len), Hash(k, len))]]

\* getBaseFilename of the query path, and those of the stored paths
QueryBase == <<"I", "M", "G", "4", "2">>

CandidateBases ==
    {<<"I", "M", "G", "4", "2">>, <<"I", "M", "G", "4", "2", "e">>,
     <<"D", "S", "C", "4", "2">>, <<"I", "M", "G", "4", "3">>}

Digits == {"0", "1", "2", "3", "4", "5", "6", "7", "8", "9"}

IsDigit(ch) == ch \in Digits

HasPrefix(s, prefix) ==
    /\ Len(prefix) <= Len(s)
    /\ SubSeq(s, 1, Len(prefix)) = prefix

extractDigits(s) == SelectSeq(s, IsDigit)

areFilenamesRelated(base1, base2) ==
    \/ base1 = base2
    \/ HasPrefix(base1, base2)
    \/ HasPrefix(base2, base1)
    \/ /\ extractDigits(base1) # <<>>
       /\ extractDigits(base2) # <<>>
       /\ extractDigits(base1) = extractDigits(base2)

\* areFilenamesRelated(options.QueryPath, path) for each stored path
RelatedToQuery == [base \in CandidateBases |-> areFilenamesRelated(QueryBase, base)]

\* avgThreshold and pHashThreshold of the row loop
PrefilterThresholds(queryKind, candKind, related) ==
    LET byFormat ==
            IF \/ isRawFormat(queryKind) /\ isJpgFormat(candKind)
               \/ isJpgFormat(queryKind) /\ isRawFormat(candKind)
            THEN [avg |-> RawJpgAvgThreshold, pHash |-> RawJpgPHashThreshold]
            ELSE IF isRawFormat(queryKind) \/ isRawFormat(candKind)
            THEN [avg |-> RawAvgThreshold, pHash |-> RawPHashThreshold]
            ELSE [avg |-> StdAvgThreshold, pHash |-> StdPHashThreshold]
    IN IF isJpgFormat(queryKind) /\ isRawFormat(candKind) /\ related
       THEN [avg |-> BypassThreshold, pHash |-> BypassThreshold]
       ELSE byFormat

\* the condition under which a row is handed to a verification goroutine
\* faulty variant of PassesPrefilter: both distances must be within their bound
PassesPrefilterBoth(queryKind, candKind, related, avgHashDistance, pHashDistance) ==
    LET th == PrefilterThresholds(queryKind, candKind, related)
    IN avgHashDistance <= th.avg /\ pHashDistance <= th.pHash

PassesPrefilter(queryKind, candKind, related, avgHashDistance, pHashDistance) ==
    LET th == PrefilterThresholds(queryKind, candKind, related)
    IN avgHashDistance <= th.avg \/ pHashDistance <= th.pHash

\* ssimScore >= localThreshold, localThreshold being options.Threshold * 0.8
\* for a RAW query with a JPG candidate or a JPG query with a RAW candidate
MeetsLocalThreshold(queryKind, candKind, threshold, score) ==
    IF \/ isRawFormat(queryKind) /\ isJpgFormat(candKind)
       \/ isJpgFormat(queryKind) /\ isRawFormat(candKind)
    THEN score * 10 >= threshold * 8
    ELSE score >= threshold

\* faulty variant of Accepts: a candidate that cannot be read is compared anyway
AcceptsUnread(disk, queryKind, candKind, threshold, score) ==
    MeetsLocalThreshold(queryKind, candKind, threshold, IF disk = "ok" THEN score ELSE threshold)

\* what the verification goroutine decides: os.Stat or LoadImage failing makes
\* it return before the comparison
Accepts(disk, queryKind, candKind, threshold, score) ==
    /\ disk = "ok"
    /\ MeetsLocalThreshold(queryKind, candKind, threshold, score)

\* row i is in the matches slice
InMatches(i) == \E k \in 1..Len(matches) : matches[k].id = i

\* row i is in the returned slice
InResult(i) == \E k \in 1..Len(searchResult) : searchResult[k].id = i

IsSortedDescending(ms) == \A i \in 1..(Len(ms) - 1) : ms[i].score >= ms[i + 1].score

\* faulty variant of SortSlice: the slice is returned as the goroutines left it
SortSliceNone(ms) == {ms}

\* sort.Slice by descending SSIMScore; the sort is not stable, so every
\* descending arrangement is a possible outcome
SortSlice(ms) ==
    {s \in {[i \in 1..Len(ms) |-> ms[p[i]]] : p \in Permutations(1..Len(ms))} :
        IsSortedDescending(s)}

Thresholds == {50, 80}

Scores == {70, 78, 95, 99}

InitSearch ==
    /\ ScanIdle
    /\ CommandIdle
    /\ StoreIdle
    /\ SearchIdle
    /\ DecodeIdle
    /\ DistanceIdle
    /\ VerifyIdle
    /\ NamesIdle
    /\ HashIdle

\* FindSimilarImages up to the row loop: the query is loaded and hashed and
\* the rows are queried; any failure returns an error
StartSearch(kind, threshold, hashLen, outcome) ==
    /\ searchPc = "idle"
    /\ searchOptions' = [kind |-> kind, Threshold |-> threshold, hashLen |-> hashLen]
    /\ searchPc' = IF outcome = "ok" THEN "rows" ELSE "failed"
    /\ UNCHANGED <<rowIdx, cand, searchSem, matches, searchResult, lastRow>>
    /\ UNCHANGED <<scanVars, recovery, distVars, verifyVars, nameVars, hashVars, decodeVars, cmdVars, tableVars>>

\* one iteration of the row loop: rows.Scan, the two distances, the
\* thresholds, and for a row that passes, wg.Add, the semaphore and the go
\* statement
ReadRow(kind, base, avgK, pK, scanOk) ==
    /\ searchPc = "rows"
    /\ rowIdx < NumRecords
    /\ LET i == rowIdx + 1
           len == searchOptions.hashLen
           related == RelatedToQuery[base]
           avgHashDistance == HashDistance[len][avgK]
           pHashDistance == HashDistance[len][pK]
           pass == PassesPrefilter(searchOptions.kind, kind, related,
                                   avgHashDistance, pHashDistance)
       IN /\ rowIdx' = i
          /\ IF ~scanOk
             THEN /\ cand' = [cand EXCEPT ![i] = [NoCand EXCEPT !.status = "scanError"]]
                  /\ lastRow' = [NoRow EXCEPT !.id = i]
                  /\ UNCHANGED searchSem
             ELSE /\ pass => searchSem < SearchWorkers
                  /\ cand' = [cand EXCEPT ![i] =
                         [NoCand EXCEPT !.kind = kind, !.pass = pass,
                              !.status = IF pass THEN "verifying" ELSE "filtered"]]
                  /\ lastRow' = [id |-> i, kind |-> kind, related |-> related,
                                 avgHashDistance |-> avgHashDistance,
                                 pHashDistance |-> pHashDistance, pass |-> pass]
                  /\ searchSem' = IF pass THEN searchSem + 1 ELSE searchSem
    /\ UNCHANGED <<searchOptions, searchPc, matches, searchResult>>
    /\ UNCHANGED <<scanVars, recovery, distVars, verifyVars, nameVars, hashVars, decodeVars, cmdVars, tableVars>>

\* the verification goroutine of row i, whole: os.Stat, LoadImage, ComputeSSIM,
\* the append under the mutex, and the deferred release of the semaphore
Verify(i, disk, score) ==
    /\ cand[i].status = "verifying"
    /\ LET s == IF disk = "ok" THEN score ELSE 0
           accepted == Accepts(disk, searchOptions.kind, cand[i].kind,
                               searchOptions.Threshold, score)
       IN /\ cand' = [cand EXCEPT ![i].status = "done", ![i].disk = disk, ![i].score = s]
          /\ matches' = IF accepted THEN Append(matches, [id |-> i, score |-> s])
                        ELSE matches
    /\ searchSem' = searchSem - 1
    /\ lastRow' = NoRow
    /\ UNCHANGED <<searchOptions, searchPc, rowIdx, searchResult>>
    /\ UNCHANGED <<scanVars, recovery, distVars, verifyVars, nameVars, hashVars, decodeVars, cmdVars, tableVars>>

\* rows.Next() returns false (the table has no further row), wg.Wait()
\* returns, the matches are sorted and returned with a nil error
SearchReturn ==
    /\ searchPc = "rows"
    /\ \A i \in Records : cand[i].status # "verifying"
    /\ searchResult' \in SortSlice(matches)
    /\ searchPc' = "returned"
    /\ lastRow' = NoRow
    /\ UNCHANGED <<searchOptions, rowIdx, cand, searchSem, matches>>
    /\ UNCHANGED <<scanVars, recovery, distVars, verifyVars, nameVars, hashVars, decodeVars, cmdVars, tableVars>>

NextSearch ==
    \/ \E kind \in Kinds, threshold \in Thresholds, hashLen \in HashLens,
          outcome \in {"ok", "loadError", "hashError", "queryError"} :
           StartSearch(kind, threshold, hashLen, outcome)
    \/ \E kind \in Kinds, base \in CandidateBases, avgK \in HashPrefixes,
          pK \in HashPrefixes, scanOk \in BOOLEAN :
           ReadRow(kind, base, avgK, pK, scanOk)
    \/ \E i \in Records, disk \in {"ok", "missing", "undecodable"}, score \in Scores :
           Verify(i, disk, score)
    \/ SearchReturn

SpecSearch == InitSearch /\ [][NextSearch]_vars

\* ------------------------------------------------- temporary decode files
\* SpecDecode: decode calls (LoadImage of a RAW loader, extractWithExiftool of
\* the TIFF handler) running concurrently, each trying its conversion methods
\* in order on a temporary file. A source file is a directory and a base
\* filename; tmpFiles holds the temporary files on disk with their last writer.
DecodeLoaders == {"simpleRaw", "raw", "tiff"}

SourceDirs == 1..NumSourceDirs

SourceBases == 1..NumSourceBases

TimeStamps == 1..NumTimeStamps

\* the temporary path a call computes:
\*   SimpleRawImageLoader  os.TempDir()/<base>.jpg
\*   RawImageLoader        TempDir/raw_conv_<time.Now().UnixNano()>.tiff
\*   TiffImageHandler      <dir of the source>/temp_<base>.jpg
TempPath(loader, dir, base, stamp) ==
    CASE loader = "simpleRaw" -> [area |-> "tmp", dir |-> 0, name |-> "base", key |-> base]
      [] loader = "raw"       -> [area |-> "tmp", dir |-> 0, name |-> "raw_conv", key |-> stamp]
      [] loader = "tiff"      -> [area |-> "src", dir |-> dir, name |-> "temp", key |-> base]

\* the conversion methods of each loader, in the order they are tried
Methods(loader) ==
    CASE loader = "simpleRaw" -> <<"exiftool", "dcraw", "dcrawOptions", "libraw">>
      [] loader = "raw"       -> <<"dcraw", "libraw", "exiftool">>
      [] loader = "tiff"      -> <<"preview", "thumbnail">>

\* what a method does: "nofile" (tool missing, nothing written), "failed" (the
\* file was created and the conversion failed), "unreadable" (the file was
\* written and IMRead returns an empty image), "ok" (an image was read)
MethodOutcomes == {"nofile", "failed", "unreadable", "ok"}

\* os.Create / the tool's -o: the file at path is (re)written by call c
WriteTemp(files, path, c) == {f \in files : f.path # path} \cup {[path |-> path, by |-> c]}

\* os.Remove(path)
RemoveTemp(files, path) == {f \in files : f.path # path}

\* whether the call removes its temporary file when it leaves that way:
\* RawImageLoader defers os.Remove at entry; SimpleRawImageLoader defers it
\* only in the branch that returns the converted image; extractWithExiftool
\* never removes
RemovesTemp(loader, exit) ==
    CASE loader = "raw"       -> TRUE
      [] loader = "simpleRaw" -> exit = "converted"
      [] loader = "tiff"      -> FALSE

\* the files on disk after call c leaves
AfterExit(files, call, exit) ==
    IF RemovesTemp(call.loader, exit) THEN RemoveTemp(files, call.tempPath) ELSE files

InitDecode ==
    /\ ScanIdle
    /\ CommandIdle
    /\ StoreIdle
    /\ SearchIdle
    /\ DecodeIdle
    /\ DistanceIdle
    /\ VerifyIdle
    /\ NamesIdle
    /\ HashIdle

\* a decode call starts on a source file no running call is decoding; the
\* clock it reads is not behind the one a running call has read
StartDecode(c, loader, dir, base, stamp) ==
    /\ decode[c].pc = "idle"
    /\ \A d \in DecodeCalls :
           decode[d].pc = "running" =>
               /\ <<decode[d].dir, decode[d].base>> # <<dir, base>>
               /\ decode[d].stamp <= stamp
    /\ decode' = [decode EXCEPT ![c] =
           [pc |-> "running", loader |-> loader, dir |-> dir, base |-> base,
            stamp |-> stamp, step |-> 1, tempPath |-> TempPath(loader, dir, base, stamp)]]
    /\ UNCHANGED tmpFiles
    /\ UNCHANGED <<scanVars, recovery, distVars, verifyVars, nameVars, hashVars, cmdVars, tableVars, searchVars>>

\* the call tries its next method
TryMethod(c, outcome) ==
    /\ decode[c].pc = "running"
    /\ decode[c].step <= Len(Methods(decode[c].loader))
    /\ LET call == decode[c]
           written == IF outcome = "nofile" THEN tmpFiles
                      ELSE WriteTemp(tmpFiles, call.tempPath, c)
       IN CASE outcome = "ok" ->
                 /\ decode' = [decode EXCEPT ![c].pc = "image"]
                 /\ tmpFiles' = AfterExit(written, call, "converted")
            [] outcome = "failed" /\ call.loader = "tiff" ->
                 \* exiftool's error is returned at once
                 /\ decode' = [decode EXCEPT ![c].pc = "error"]
                 /\ tmpFiles' = AfterExit(written, call, "error")
            [] OTHER ->
                 /\ decode' = [decode EXCEPT ![c].step = @ + 1]
                 /\ tmpFiles' = written
    /\ UNCHANGED <<scanVars, recovery, distVars, verifyVars, nameVars, hashVars, cmdVars, tableVars, searchVars>>

\* every method was tried: the source is read directly, as a last resort
DirectLoad(c, ok) ==
    /\ decode[c].pc = "running"
    /\ decode[c].step > Len(Methods(decode[c].loader))
    /\ decode' = [decode EXCEPT ![c].pc = IF ok THEN "image" ELSE "error"]
    /\ tmpFiles' = AfterExit(tmpFiles, decode[c], IF ok THEN "direct" ELSE "error")
    /\ UNCHANGED <<scanVars, recovery, distVars, verifyVars, nameVars, hashVars, cmdVars, tableVars, searchVars>>

\* the call panics (a fault inside OpenCV or a tool wrapper); deferred calls run
DecodeFault(c) ==
    /\ decode[c].pc = "running"
    /\ decode' = [decode EXCEPT ![c].pc = "fault"]
    /\ tmpFiles' = AfterExit(tmpFiles, decode[c], "fault")
    /\ UNCHANGED <<scanVars, recovery, distVars, verifyVars, nameVars, hashVars, cmdVars, tableVars, searchVars>>

NextDecode ==
    \/ \E c \in DecodeCalls, loader \in DecodeLoaders, dir \in SourceDirs,
          base \in SourceBases, stamp \in TimeStamps :
           StartDecode(c, loader, dir, base, stamp)
    \/ \E c \in DecodeCalls, outcome \in MethodOutcomes : TryMethod(c, outcome)
    \/ \E c \in DecodeCalls, ok \in BOOLEAN : DirectLoad(c, ok)
    \/ \E c \in DecodeCalls : DecodeFault(c)

SpecDecode == InitDecode /\ [][NextDecode]_vars

\* ------------------------------------------------- the hash functions
\* SpecHash: ComputeAverageHash and ComputePerceptualHash of hash_utils.go
\* applied to one image. An image is its dimensions and a rule that gives the
\* grey value of each pixel; an image with no row or no column is empty.
ImageDims == {0, 1, 5, 8, 13}

PatternKinds == {"step", "ramp"}

HashFunctions == {"average", "perceptual"}

IsEmptyImage(img) == img.rows = 0 \/ img.cols = 0

\* the grey value (0..255) of pixel (r, c), rows and columns counted from 1
PixelAt(img, r, c) ==
    LET n == (r - 1) * img.cols + c
    IN IF img.kind = "step"
       THEN IF n * MaxPattern <= img.param * img.rows * img.cols THEN 200 ELSE 10
       ELSE (n * (1 + 36 * img.param)) % 256

\* gocv.Resize to size x size: the cells of the result, row by row, each
\* taken from the source pixel it covers
Resize(img, size) ==
    [i \in 1..(size * size) |->
        LET y == (i - 1) \div size
            x == (i - 1) % size
        IN PixelAt(img, (y * img.rows) \div size + 1, (x * img.cols) \div size + 1)]

\* the 8x8 low-frequency region of the DCT of the 32x32 image, row by row;
\* a coefficient is represented by the centred value of the cell it is
\* computed around
LowFreq(img) ==
    LET resized == Resize(img, DctSize)
    IN [i \in 1..(GridSize * GridSize) |->
           LET y == (i - 1) \div GridSize
               x == (i - 1) % GridSize
           IN resized[(y * (DctSize \div GridSize)) * DctSize
                      + x * (DctSize \div GridSize) + 1] - 128]

RECURSIVE SumSeq(_, _)
SumSeq(values, n) == IF n = 0 THEN 0 ELSE values[n] + SumSeq(values, n - 1)

\* valuesCopy[k] after the sort, k counted from 0
SortedAt(values, k) ==
    CHOOSE v \in {values[i] : i \in 1..Len(values)} :
        /\ Cardinality({i \in 1..Len(values) : values[i] < v}) <= k
        /\ Cardinality({i \in 1..Len(values) : values[i] <= v}) > k

\* calculateMedian, doubled (the mean of the two middle values is not halved)
TwiceMedian(values) ==
    LET length == Len(values)
    IN IF length = 0 THEN 0
       ELSE IF length % 2 = 0
       THEN SortedAt(values, length \div 2 - 1) + SortedAt(values, length \div 2)
       ELSE 2 * SortedAt(values, length \div 2)

\* the bit loop of both functions: currentByte is shifted left (a byte keeps 8
\* bits), a set bit is or-ed in, and every 8 bits the byte is appended;
\* remaining bits are padded with zeros on the right
RECURSIVE PackBits(_, _, _, _, _)
PackBits(bits, i, currentByte, bitCount, hashBytes) ==
    IF i > Len(bits)
    THEN IF bitCount > 0
         THEN Append(hashBytes, (currentByte * (2 ^ (8 - bitCount))) % 256)
         ELSE hashBytes
    ELSE LET shifted == ((currentByte * 2) % 256) + bits[i]
         IN IF bitCount + 1 = 8
            THEN PackBits(bits, i + 1, 0, 0, Append(hashBytes, shifted))
            ELSE PackBits(bits, i + 1, shifted, bitCount + 1, hashBytes)

HexDigits == <<"0", "1", "2", "3", "4", "5", "6", "7", "8", "9",
               "a", "b", "c", "d", "e", "f">>

\* faulty variant of FormatByte: fmt.Sprintf("%x", b), no zero padding
FormatByteUnpadded(b) ==
    IF b < 16 THEN <<HexDigits[b + 1]>>
    ELSE <<HexDigits[(b \div 16) + 1], HexDigits[(b % 16) + 1]>>

\* fmt.Sprintf("%02x", b)
FormatByte(b) == <<HexDigits[(b \div 16) + 1], HexDigits[(b % 16) + 1]>>

RECURSIVE HexString(_, _)
HexString(hashBytes, n) ==
    IF n = 0 THEN <<>> ELSE HexString(hashBytes, n - 1) \o FormatByte(hashBytes[n])

\* the bits of the average hash, row by row: float64(pixel) >= sum / count
AverageBits(gray) ==
    LET count == Len(gray)
        sum == SumSeq(gray, count)
    IN [i \in 1..count |-> IF gray[i] * count >= sum THEN 1 ELSE 0]

\* the bits of the perceptual hash, row by row: val >= median
PerceptualBits(lowFreq) ==
    LET twice == TwiceMedian(lowFreq)
    IN [i \in 1..Len(lowFreq) |-> IF 2 * lowFreq[i] >= twice THEN 1 ELSE 0]

ComputeAverageHash(img) ==
    IF IsEmptyImage(img)
    THEN [err |-> TRUE, hash |-> <<>>]
    ELSE LET hashBytes == PackBits(AverageBits(Resize(img, GridSize)), 1, 0, 0, <<>>)
         IN [err |-> FALSE, hash |-> HexString(hashBytes, Len(hashBytes))]

ComputePerceptualHash(img) ==
    IF IsEmptyImage(img)
    THEN [err |-> TRUE, hash |-> <<>>]
    ELSE LET hashBytes == PackBits(PerceptualBits(LowFreq(img)), 1, 0, 0, <<>>)
         IN [err |-> FALSE, hash |-> HexString(hashBytes, Len(hashBytes))]

\* the value of a hexadecimal character
HexValue(ch) == (CHOOSE d \in 1..16 : HexDigits[d] = ch) - 1

\* bit i (from 1, row by row) that a hash string holds
HashBit(hash, i) ==
    LET nibble == HexValue(hash[(i - 1) \div 4 + 1])
    IN (nibble \div (2 ^ (3 - ((i - 1) % 4)))) % 2

InitHash ==
    /\ ScanIdle
    /\ CommandIdle
    /\ StoreIdle
    /\ SearchIdle
    /\ DecodeIdle
    /\ DistanceIdle
    /\ VerifyIdle
    /\ NamesIdle
    /\ hashIn \in [fn : HashFunctions, rows : ImageDims, cols : ImageDims,
                   kind : PatternKinds, param : 0..MaxPattern]
    /\ hashOut = NoHash

\* the function is called on the image
ComputeHash ==
    /\ hashOut = NoHash
    /\ hashOut' = [done |-> TRUE,
                   res |-> IF hashIn.fn = "average" THEN ComputeAverageHash(hashIn)
                           ELSE ComputePerceptualHash(hashIn)]
    /\ UNCHANGED hashIn
    /\ UNCHANGED <<scanVars, recovery, distVars, verifyVars, nameVars, cmdVars, tableVars, searchVars, decodeVars>>

NextHash == ComputeHash

SpecHash == InitHash /\ [][NextHash]_vars

\* ------------------------------------------------- the filename relation
\* SpecNames: areFilenamesRelated applied to two paths. A base filename
\* (getBaseFilename: directory and extension removed) is a sequence of
\* characters.
FileBases ==
    {<<"I", "M", "G", "4", "2">>, <<"I", "M", "G", "4", "2", "e">>,
     <<"D", "S", "C", "4", "2">>, <<"I", "M", "G", "4", "3">>,
     <<"1", "I", "M", "G", "4", "2">>, <<"A", "4", "B", "2">>,
     <<"X", "4", "Y", "3">>, <<"4", "2">>, <<"I", "M", "G">>,
     <<"d", "a", "y">>, <<"m", "y", "d", "a", "y">>, <<"s", "u", "n">>}

InitNames ==
    /\ ScanIdle
    /\ CommandIdle
    /\ StoreIdle
    /\ SearchIdle
    /\ DecodeIdle
    /\ DistanceIdle
    /\ VerifyIdle
    /\ HashIdle
    /\ namesIn \in [base1 : FileBases, base2 : FileBases]
    /\ namesOut = NoRelation

\* the function is called on the two paths
CompareNames ==
    /\ namesOut = NoRelation
    /\ namesOut' = [done |-> TRUE,
                    related |-> areFilenamesRelated(namesIn.base1, namesIn.base2)]
    /\ UNCHANGED namesIn
    /\ UNCHANGED <<scanVars, recovery, distVars, verifyVars, hashVars, decodeVars, cmdVars, tableVars, searchVars>>

NextNames == CompareNames

SpecNames == InitNames /\ [][NextNames]_vars

\* ------------------------------------------------- the verification slots
\* SpecVerify: the row loop of FindSimilarImages over more rows than the
\* semaphore has slots. The loop takes a slot (semaphore <- struct{}{}) before
\* it starts the goroutine of a row that passed the prefilter, and blocks
\* while the semaphore is full; the goroutine gives the slot back in a
\* deferred function.
Candidates == 1..NumCandidates

\* how a verification ends: os.Stat fails, LoadImage fails, the score is
\* below the threshold, the match is appended
VerifyExits == {"missing", "undecodable", "rejected", "accepted"}

Verifying == {i \in Candidates : verification[i] = "running"}

\* faulty variant of SemaphoreAfterExit: the slot is given back at the end of
\* the function body, which the early returns do not reach
SemaphoreAfterExitLeaks(sem, exit) ==
    IF exit \in {"missing", "undecodable"} THEN sem ELSE sem - 1

\* len(semaphore) once the goroutine has left: defer func() { <-semaphore }()
\* runs on every return
SemaphoreAfterExit(sem, exit) == sem - 1

InitVerify ==
    /\ ScanIdle
    /\ CommandIdle
    /\ StoreIdle
    /\ SearchIdle
    /\ DecodeIdle
    /\ DistanceIdle
    /\ HashIdle
    /\ NamesIdle
    /\ verifyPc = "rows"
    /\ verification = [i \in Candidates |-> "unread"]
    /\ verifySem = 0
    /\ lastExit = "none"

\* the next row to read
NextCandidate == Cardinality({i \in Candidates : verification[i] # "unread"}) + 1

\* one iteration of the row loop: a row that fails the prefilter is passed
\* over; for one that passes, the loop waits for a slot and starts the goroutine
ReadCandidate(pass) ==
    /\ verifyPc = "rows"
    /\ NextCandidate \in Candidates
    /\ IF pass
       THEN /\ verifySem < SearchWorkers
            /\ verifySem' = verifySem + 1
            /\ verification' = [verification EXCEPT ![NextCandidate] = "running"]
       ELSE /\ verification' = [verification EXCEPT ![NextCandidate] = "filtered"]
            /\ UNCHANGED verifySem
    /\ lastExit' = "none"
    /\ UNCHANGED verifyPc
    /\ UNCHANGED <<scanVars, recovery, distVars, nameVars, hashVars, decodeVars, cmdVars, tableVars,
                   searchVars>>

\* the goroutine of row i returns
EndVerification(i, exit) ==
    /\ verification[i] = "running"
    /\ verification' = [verification EXCEPT ![i] = "done"]
    /\ verifySem' = SemaphoreAfterExit(verifySem, exit)
    /\ lastExit' = exit
    /\ UNCHANGED verifyPc
    /\ UNCHANGED <<scanVars, recovery, distVars, nameVars, hashVars, decodeVars, cmdVars, tableVars,
                   searchVars>>

\* rows.Next() returns false
CandidatesEnd ==
    /\ verifyPc = "rows"
    /\ NextCandidate \notin Candidates
    /\ verifyPc' = "wait"
    /\ lastExit' = "none"
    /\ UNCHANGED <<verification, verifySem>>
    /\ UNCHANGED <<scanVars, recovery, distVars, nameVars, hashVars, decodeVars, cmdVars, tableVars,
                   searchVars>>

\* wg.Wait() returns
VerifyReturn ==
    /\ verifyPc = "wait"
    /\ Verifying = {}
    /\ verifyPc' = "returned"
    /\ lastExit' = "none"
    /\ UNCHANGED <<verification, verifySem>>
    /\ UNCHANGED <<scanVars, recovery, distVars, nameVars, hashVars, decodeVars, cmdVars, tableVars,
                   searchVars>>

NextVerify ==
    \/ \E pass \in BOOLEAN : ReadCandidate(pass)
    \/ \E i \in Candidates, exit \in VerifyExits : EndVerification(i, exit)
    \/ CandidatesEnd
    \/ VerifyReturn

SpecVerify == InitVerify /\ [][NextVerify]_vars

\* ------------------------------------------------- the hash distance
\* SpecDistance: CalculateHammingDistance applied to two hash strings, of
\* equal or different lengths, the empty string included.
HashChars == <<"0", "1", "f">>

\* the strings of at most MaxHashChars characters
RECURSIVE StringsOfLen(_)
StringsOfLen(n) ==
    IF n = 0 THEN {<<>>}
    ELSE {Append(s, HashChars[c]) : s \in StringsOfLen(n - 1), c \in 1..Len(HashChars)}

HashStrings == UNION {StringsOfLen(n) : n \in 0..MaxHashChars}

InitDistance ==
    /\ ScanIdle
    /\ CommandIdle
    /\ StoreIdle
    /\ SearchIdle
    /\ DecodeIdle
    /\ HashIdle
    /\ NamesIdle
    /\ VerifyIdle
    /\ distIn \in [hash1 : HashStrings, hash2 : HashStrings]
    /\ distOut = NoDistance

\* the function is called on the two hashes
ComputeDistance ==
    /\ distOut = NoDistance
    /\ distOut' = [done |-> TRUE,
                   distance |-> CalculateHammingDistance(distIn.hash1, distIn.hash2),
                   swapped |-> CalculateHammingDistance(distIn.hash2, distIn.hash1)]
    /\ UNCHANGED distIn
    /\ UNCHANGED <<scanVars, recovery, verifyVars, nameVars, hashVars, decodeVars, cmdVars,
                   tableVars, searchVars>>

NextDistance == ComputeDistance

SpecDistance == InitDistance /\ [][NextDistance]_vars






\* ------------------------------------------------------------ properties
\* workers that hold a semaphore slot
Holders == {f \in Files : wpc[f] \in {"acquired", "process", "send", "exit"}}

\* files whose worker produced a result
Produced == {f \in Files : how[f] \in {"processed", "panicked"}}

\* files whose result has Success = false
Failures == {f \in Produced : ~result[f].Success}

\* ScanAndStoreFolder has returned and every goroutine of the scan has ended
ScanFinished == mainPc = "done" /\ fwdPc = "done" /\ aggPc = "done"

\* ---- the scan under fair scheduling: every goroutine that can take a step
\* ---- eventually takes one (the Go scheduler runs every runnable goroutine,
\* ---- and a select with a time.After case cannot wait forever)
MainStep ==
    \/ StartScan
    \/ LaunchChunk
    \/ ChunkDone
    \/ SignalStop
    \/ ForwarderCompleted
    \/ ForwarderWaitTimeout
    \/ WalkReturn
    \/ PrintCompletionStats
    \/ Stop

WorkerStep(f) ==
    \/ Acquire(f)
    \/ CountAcquisition(f)
    \/ SemaphoreTimeout(f)
    \/ Process(f)
    \/ SendToBuffer(f)
    \/ SendTimeout(f)
    \/ WorkerExit(f)
    \/ CountRelease(f)

ForwarderStep ==
    \/ FwdReceive
    \/ FwdBufferClosed
    \/ FwdStop
    \/ FwdSend
    \/ FwdTimeout
    \/ FwdStopForwarding
    \/ FwdPanic

AggregatorStep == ProcessResult \/ ProcessResultsExit

Fairness ==
    /\ WF_vars(MainStep)
    /\ \A f \in Files : WF_vars(WorkerStep(f))
    /\ WF_vars(ForwarderStep)
    /\ WF_vars(AggregatorStep)
    /\ WF_vars(MonitorExit)

SpecLive == Init /\ [][Next]_vars /\ Fairness


\* C1 (Spec): no lost results - when the scan is over the aggregator has received
\* exactly one result per enumerated file.
NoLostResults == ScanFinished => tracker.processed = NumFiles

\* C2 (Spec): bounded concurrency - the workers holding a semaphore slot are never
\* more than options.MaxWorkers when that is positive, and never more than 8 otherwise.
BoundedConcurrency ==
    Cardinality(Holders) <= (IF options.MaxWorkers > 0 THEN options.MaxWorkers ELSE 8)

\* C2 witness: every slot is held while another worker has already been refused once
BoundedConcurrencyWitness ==
    /\ Cardinality(Holders) = maxWorkers
    /\ \E f \in Files : wpc[f] = "acquire" /\ semTry[f] > 0

\* C7 (Spec): every result a worker produced is delivered to the aggregator or
\* counted as dropped - at the end of the scan, results produced = results
\* received + bufferOverflows + sendTimeouts.
EveryDropCounted ==
    ScanFinished =>
        stats.filesProcessed = tracker.processed + stats.bufferOverflows + stats.sendTimeouts

\* C8 (Spec): fault containment - a panic in per-file processing is caught in its
\* worker, which then holds a result with Success = false for that path and goes on
\* to send it; its result is sent or counted like any other, and the semaphore
\* holds exactly the slots of the workers still inside (none is leaked).
FaultContained ==
    /\ \A f \in Files :
         how[f] = "panicked" =>
            /\ result[f] = [Path |-> f, Success |-> FALSE]
            /\ wpc[f] \in {"send", "exit", "released", "done"}
    /\ semaphore = Cardinality(Holders)
    /\ stats.resultsSent + stats.bufferOverflows
         = Cardinality({f \in Produced : wpc[f] \in {"exit", "released", "done"}})

\* C8 witness: a scan with a panicking file ran to its end, another file was
\* processed with success and every result reached the aggregator
FaultContainedWitness ==
    /\ ScanFinished
    /\ \E f \in Files : how[f] = "panicked"
    /\ \E g \in Files : how[g] = "processed" /\ result[g].Success
    /\ tracker.processed = NumFiles
    /\ semaphore = 0

FailuresCounted ==
    ScanFinished =>
        /\ \A f \in Files : wpc[f] = "done"
        /\ tracker.errors = Cardinality(Failures)

\* C3 (SpecRescan): idempotent scan - a file indexed by a non-force scan and not
\* modified since is resolved by the skip check in the next non-force scan, with
\* no decode and its row untouched, whatever its modification time is.
IdempotentScan ==
    (last.path # 0 /\ ~last.force /\ last.wasClean /\ last.ok) =>
        /\ last.how = "skipped"
        /\ store[last.path] = last.prior

\* C4 (SpecRescan): skip boundary - without force, a file whose modification time
\* equals the stored modifiedAt T is not decoded (it is skipped), and a file whose
\* modification time is T + 1s is not skipped (it is decoded, hashed and stored).
SkipBoundary ==
    (last.path # 0 /\ ~last.force /\ last.prior.present) =>
        /\ last.fileTime = ParseRFC3339(last.prior.modifiedAt) =>
              /\ ~Decoded(last.how)
              /\ last.ok => last.how = "skipped"
        /\ last.fileTime = ParseRFC3339(last.prior.modifiedAt) + TicksPerSecond =>
              /\ last.how # "skipped"
              /\ last.ok => last.how = "stored"

\* C4 witness: a file one second newer than its row has just been reprocessed
SkipBoundaryWitness ==
    /\ last.path # 0
    /\ ~last.force
    /\ last.prior.present
    /\ last.fileTime = ParseRFC3339(last.prior.modifiedAt) + TicksPerSecond
    /\ last.how = "stored"

\* C5 (SpecRescan): stale-record update - after a successful non-force task on a
\* file newer than its row, the row holds the new hashes and the new modifiedAt.
StaleRecordUpdated ==
    (/\ last.path # 0
     /\ ~last.force
     /\ last.prior.present
     /\ last.fileTime > ParseRFC3339(last.prior.modifiedAt)
     /\ last.how = "stored") =>
        /\ store[last.path].hash = last.hash
        /\ store[last.path].modifiedAt = FormatRFC3339(last.fileTime)

\* C6 (SpecRescan): force rewrite - a force task is never skipped and, when the
\* file decodes, hashes and stores, the row is replaced: its createdAt is the time
\* of this task and its hashes and modifiedAt are the ones just computed.
ForceRewriteOverwrites ==
    (last.path # 0 /\ last.force) =>
        /\ last.how # "skipped"
        /\ last.ok =>
              /\ last.how = "stored"
              /\ store[last.path] = Row(FormatRFC3339(last.fileTime),
                                        FormatRFC3339(last.at), last.hash)

\* C6 witness: a force task has just replaced the row of an unchanged file
ForceRewriteWitness ==
    /\ last.path # 0
    /\ last.force
    /\ last.how = "stored"
    /\ last.prior.present
    /\ last.prior.modifiedAt = FormatRFC3339(last.fileTime)
    /\ last.prior.hash = last.hash
    /\ store[last.path].createdAt # last.prior.createdAt

\* C11 (SpecRescan): no partial record - a task that fails in the decode, on an
\* empty image, in the hashing or in the insert ends with Success = false and
\* leaves the row of its key exactly as it was (none inserted, none modified).
NoPartialRecord ==
    (last.path # 0 /\ last.how = "failed") =>
        /\ ~result[last.path].Success
        /\ store[last.path] = last.prior

\* C11 witness: a task on a file without a row has just failed after the skip
\* check and stat, and the file still has no row
NoPartialRecordWitness ==
    /\ last.path # 0
    /\ last.how = "failed"
    /\ ~last.prior.present
    /\ ~store[last.path].present
    /\ ~result[last.path].Success

\* C13 (Spec): final summary completeness - the processed and error counts read
\* by PrintCompletionStats are the counts of all results delivered to resultsChan
\* (the aggregator has consumed every one of them before the summary is read).
SummaryComplete ==
    ScanFinished =>
        /\ tracker.processed = stats.resultsForwarded
        /\ reported = tracker

\* a row as one StoreImageInfo call writes it: modifiedAt and hashes of one
\* and the same version of the file
CompleteRow(r) ==
    /\ r.present
    /\ \E x \in 0..MaxTick :
          /\ r.modifiedAt = FormatRFC3339(x)
          /\ r.hash = ComputeImageHashes(x)

\* C14 (SpecRescan): interrupted-scan recovery - once a scan was interrupted and a
\* later non-force scan of the folder has run to completion, every file whose
\* task succeeded has its row, and every row in the table is a complete one.
InterruptedScanRecovers ==
    (recovery = "recovered" /\ ~options.ForceRewrite) =>
        \A f \in RescanFiles :
            /\ result[f].Success => store[f].present
            /\ store[f].present => CompleteRow(store[f])

\* C14 witness: the first scan was interrupted after it had stored one file, and
\* the non-force scan that followed went through and stored the other a second
\* or more later
InterruptedScanRecoversWitness ==
    /\ recovery = "recovered"
    /\ ~options.ForceRewrite
    /\ \A f \in RescanFiles : result[f].Success /\ store[f].present
    /\ \E f, g \in RescanFiles : store[f].createdAt # store[g].createdAt

\* C12 (SpecCommand): the scan command ends with a non-zero status if and only
\* if the root folder is inaccessible; with an accessible root it ends with
\* status 0 whatever per-entry and per-file errors occurred.
ScanFailsIffRootInaccessible ==
    cmdPc = "exited" => ((exitCode # 0) <=> (rootState # "ok"))

\* C15 (SpecStore): whatever the sequence and interleaving of force and
\* non-force scan tasks, table images holds at most one row for each
\* (path, sourcePrefix) pair.
KeyUnique ==
    \A r1 \in images, r2 \in images :
        (r1.path = r2.path /\ r1.prefix = r2.prefix) => r1 = r2

\* two non-force tasks both found the key absent and both ran their INSERT for
\* it, and a third row of the same path under another prefix is stored as well
KeyUniqueWitness ==
    /\ storeTask[1].pc = "stored"
    /\ storeTask[2].pc = "stored"
    /\ storeTask[1].path = storeTask[2].path
    /\ storeTask[1].prefix = storeTask[2].prefix
    /\ ~storeTask[1].force
    /\ ~storeTask[2].force
    /\ Cardinality(Conflicts(images, storeTask[1].path, storeTask[1].prefix)) = 1
    /\ \E r \in images : r.path = storeTask[1].path /\ r.prefix # storeTask[1].prefix

\* C16 (SpecSearch): the returned matches are the accepted matches, each once,
\* in descending order of score, whatever order the verifications finished in
\* (accepted scores 0.95, 0.70, 0.99 are returned as 0.99, 0.95, 0.70).
RankingCorrect ==
    searchPc = "returned" =>
        /\ IsSortedDescending(searchResult)
        /\ Len(searchResult) = Len(matches)
        /\ \A k \in 1..Len(matches) : InResult(matches[k].id)
        /\ \A k \in 1..Len(searchResult) :
               searchResult[k].score = cand[searchResult[k].id].score

\* rows 1, 2, 3 scored 0.95, 0.70, 0.99 at threshold 0.5, row 2 was appended
\* first, and the result is 0.99, 0.95, 0.70
RankingCorrectWitness ==
    /\ searchPc = "returned"
    /\ searchOptions.Threshold = 50
    /\ cand[1].score = 95
    /\ cand[2].score = 70
    /\ cand[3].score = 99
    /\ Len(matches) = 3
    /\ matches[1].id = 2
    /\ searchResult = <<[id |-> 3, score |-> 99], [id |-> 1, score |-> 95],
                        [id |-> 2, score |-> 70]>>

\* C17 (SpecSearch): a verified candidate is accepted exactly when its score
\* reaches the effective threshold, which is 0.8 times the caller's threshold
\* when one of query and candidate is RAW and the other is any standard
\* format, and the caller's threshold otherwise.
CrossFormatLeniency ==
    \A i \in Records :
        (cand[i].status = "done" /\ cand[i].disk = "ok") =>
            LET crossFormat ==
                    \/ searchOptions.kind = "raw" /\ cand[i].kind # "raw"
                    \/ searchOptions.kind # "raw" /\ cand[i].kind = "raw"
                meets == IF crossFormat
                         THEN cand[i].score * 10 >= searchOptions.Threshold * 8
                         ELSE cand[i].score >= searchOptions.Threshold
            IN InMatches(i) <=> meets

\* C18 (SpecSearch): a row whose base filename is related to the query's, one
\* of the two being RAW and the other a standard format, whichever is the
\* query, reaches the verification stage whatever its two Hamming distances.
FilenameOverride ==
    ( /\ lastRow.kind # "none"
      /\ lastRow.related
      /\ \/ searchOptions.kind = "raw" /\ lastRow.kind # "raw"
         \/ searchOptions.kind # "raw" /\ lastRow.kind = "raw" )
    => lastRow.pass

\* C19 (SpecSearch): a record is in the result if and only if it passed the
\* prefilter, existed and decoded at verification time, and its score is at
\* least its effective threshold (reduced to 0.8 of the caller's for a
\* RAW/standard pair).
AcceptanceSoundAndComplete ==
    searchPc = "returned" =>
        \A i \in Records :
            InResult(i) <=>
                /\ cand[i].pass
                /\ cand[i].disk = "ok"
                /\ IF \/ searchOptions.kind = "raw" /\ cand[i].kind # "raw"
                      \/ searchOptions.kind # "raw" /\ cand[i].kind = "raw"
                   THEN cand[i].score * 10 >= searchOptions.Threshold * 8
                   ELSE cand[i].score >= searchOptions.Threshold

\* C20 (SpecSearch): a candidate that is missing or fails to decode when it is
\* verified is left out of the matches and of the result, the search does not
\* fail, and it returns every other candidate that was accepted.
SkippedWithoutError ==
    (\E i \in Records : cand[i].disk \in {"missing", "undecodable"}) =>
        /\ searchPc # "failed"
        /\ \A i \in Records :
               cand[i].disk \in {"missing", "undecodable"} =>
                   ~InMatches(i) /\ ~InResult(i)
        /\ searchPc = "returned" =>
               \A j \in Records :
                   ( /\ cand[j].status = "done"
                     /\ cand[j].disk = "ok"
                     /\ MeetsLocalThreshold(searchOptions.kind, cand[j].kind,
                                            searchOptions.Threshold, cand[j].score) )
                   => InResult(j)

\* the search has returned; row 1 was missing, row 2 did not decode, row 3 was
\* verified and is the result
SkippedWithoutErrorWitness ==
    /\ searchPc = "returned"
    /\ cand[1].disk = "missing"
    /\ cand[2].disk = "undecodable"
    /\ cand[3].disk = "ok"
    /\ Len(searchResult) = 1
    /\ searchResult[1].id = 3

\* C21 (SpecStore): a search leaves table images as it found it, and every
\* step that changes the rows of the table is the store step (StoreImageInfo)
\* of a scan task.
WriterExclusivity ==
    [][ /\ queried'.ran => images' = images
        /\ images' # images =>
               \E t \in StoreTasks :
                   storeTask[t].pc = "store" /\ storeTask'[t].pc = "stored" ]_vars

\* a search with a prefix filter has just read a table that holds rows of both
\* prefixes, and a scan task is about to store
WriterExclusivityWitness ==
    /\ queried.ran
    /\ queried.filter # 0
    /\ queried.rows # {}
    /\ queried.rows # images
    /\ \E t \in StoreTasks : storeTask[t].pc = "store"

\* C22 (SpecDecode): when a decode call has returned, with an image, with an
\* error or through a fault, no temporary file it created is left on disk.
TempFilesRemoved ==
    \A c \in DecodeCalls :
        decode[c].pc \in {"image", "error", "fault"} =>
            ~\E f \in tmpFiles : f.by = c

\* C27 (SpecDecode): two decode calls running at the same time on different
\* source files never use the same temporary file path, also when the two
\* files have the same base filename in different directories.
TempPathsPrivate ==
    \A c1 \in DecodeCalls, c2 \in DecodeCalls :
        ( /\ c1 # c2
          /\ decode[c1].pc = "running"
          /\ decode[c2].pc = "running"
          /\ <<decode[c1].dir, decode[c1].base>> # <<decode[c2].dir, decode[c2].base>> )
        => decode[c1].tempPath # decode[c2].tempPath

\* C23 (SpecHash): for every non-empty image, ComputeAverageHash and
\* ComputePerceptualHash return without error a string of exactly 16
\* hexadecimal characters, which holds one bit per cell of the 8x8 grid in
\* row-major order, 8 bits to a byte.
HashLength16 ==
    (hashOut.done /\ ~IsEmptyImage(hashIn)) =>
        LET hash == hashOut.res.hash
            bits == IF hashIn.fn = "average"
                    THEN AverageBits(Resize(hashIn, GridSize))
                    ELSE PerceptualBits(LowFreq(hashIn))
        IN /\ ~hashOut.res.err
           /\ Len(hash) = 16
           /\ \A i \in 1..Len(hash) : \E d \in 1..16 : HexDigits[d] = hash[i]
           /\ Len(bits) = 64
           /\ \A i \in 1..64 : HashBit(hash, i) = bits[i]

\* a hash was computed for an image that is not 8x8 and whose first byte is
\* below 16, so that its first character is a padding zero
HashLength16Witness ==
    /\ hashOut.done
    /\ hashIn.rows = 13
    /\ hashIn.cols = 5
    /\ ~hashOut.res.err
    /\ hashOut.res.hash[1] = "0"
    /\ \E i \in 1..16 : hashOut.res.hash[i] # "0"

\* C24 (SpecRescan): without ForceRewrite, a task whose record exists and whose
\* file modification time is not after the stored one (the lookup and os.Stat
\* having succeeded) is skipped: its result has Success = true, nothing is
\* decoded or hashed, and the record is as it was before the task.
SkipSemantics ==
    ( /\ last.path # 0
      /\ ~last.force
      /\ last.prior.present
      /\ last.fileTime <= ParseRFC3339(last.prior.modifiedAt)
      /\ last.how # "precheck" )
    => /\ last.how = "skipped"
       /\ result[last.path] = [Path |-> last.path, Success |-> TRUE]
       /\ ~Decoded(last.how)
       /\ store[last.path] = last.prior

\* a task has just been skipped at a later clock second than the one its
\* record was created in, and the record still carries its first creation time
SkipSemanticsWitness ==
    /\ last.path # 0
    /\ last.how = "skipped"
    /\ result[last.path].Success
    /\ store[last.path] = last.prior
    /\ FormatRFC3339(now) > last.prior.createdAt

\* C25 (SpecStore): when a task without ForceRewrite runs its INSERT, the key
\* it stores has exactly one row afterwards, and a row of that key computed
\* from a newer content of the file than the task decoded is still there: a
\* stale write never replaces it, whatever the interleaving of the tasks.
InsertIfAbsent ==
    [][\A t \in StoreTasks :
          ( /\ storeTask[t].pc = "store"
            /\ storeTask'[t].pc = "stored"
            /\ ~storeTask[t].force )
          => LET before == Conflicts(images, storeTask[t].path, storeTask[t].prefix)
                 after == Conflicts(images', storeTask[t].path, storeTask[t].prefix)
             IN /\ Cardinality(after) = 1
                /\ \A r \in before : r.data > storeTask[t].data => r \in after]_vars

\* two tasks without ForceRewrite decoded the same file before and after it
\* was rewritten and both ran their INSERT for the same key; the row is the
\* one computed from the newer content, so the stale write came second
InsertIfAbsentWitness ==
    /\ storeTask[1].pc = "stored"
    /\ storeTask[2].pc = "stored"
    /\ ~storeTask[1].force
    /\ ~storeTask[2].force
    /\ storeTask[1].path = storeTask[2].path
    /\ storeTask[1].prefix = storeTask[2].prefix
    /\ storeTask[1].data < storeTask[2].data
    /\ \E r \in images :
           /\ r.path = storeTask[1].path
           /\ r.prefix = storeTask[1].prefix
           /\ r.data = storeTask[2].data

\* C26 (Spec): each task yields at most one result and each result is counted
\* at most once: every file is processed once, no result is in the buffer, in
\* the forwarder's hand or in the results channel twice, the results counted
\* and in flight never outnumber the results sent, and the aggregator's
\* processed counter never exceeds the number of enumerated files, whatever
\* the retries of the worker and of the forwarder.
ResultsAtMostOnce ==
    LET inFlight == resultsBuffer
                    \o (IF fwdResult = NoResult THEN <<>> ELSE <<fwdResult>>)
                    \o resultsChan
    IN /\ \A i, j \in 1..Len(inFlight) : inFlight[i].Path = inFlight[j].Path => i = j
       /\ \A i \in 1..Len(inFlight) :
              /\ inFlight[i].Path \in Produced
              /\ wpc[inFlight[i].Path] \in {"exit", "released", "done"}
       /\ stats.filesProcessed = Cardinality(Produced)
       /\ tracker.processed + Len(inFlight) <= stats.resultsSent
       /\ stats.resultsSent <= Cardinality(Produced)
       /\ tracker.processed <= NumFiles

\* every file's result was sent, the aggregator has counted one, and the
\* forwarder, holding the result of another file, is between two attempts of
\* its retry ladder
ResultsAtMostOnceWitness ==
    /\ stats.resultsSent = NumFiles
    /\ tracker.processed > 0
    /\ fwdPc = "forward"
    /\ fwdTry > 0
    /\ fwdResult.Path \in Produced

\* C28 (SpecSearch): a row of the same general class as the query (both RAW
\* or both standard) passes the prefilter exactly when one of its distances is
\* within the strict bounds (10 / 12); a row of which exactly one of query and
\* candidate is RAW, filenames unrelated, passes exactly when one of its
\* distances is within the relaxed bounds of its pair.
AdaptiveBounds ==
    lastRow.kind # "none" =>
        LET sameClass == isRawFormat(searchOptions.kind) <=> isRawFormat(lastRow.kind)
            rawJpg == \/ isRawFormat(searchOptions.kind) /\ isJpgFormat(lastRow.kind)
                      \/ isJpgFormat(searchOptions.kind) /\ isRawFormat(lastRow.kind)
            strict == \/ lastRow.avgHashDistance <= StdAvgThreshold
                      \/ lastRow.pHashDistance <= StdPHashThreshold
            relaxed == IF rawJpg
                       THEN \/ lastRow.avgHashDistance <= RawJpgAvgThreshold
                            \/ lastRow.pHashDistance <= RawJpgPHashThreshold
                       ELSE \/ lastRow.avgHashDistance <= RawAvgThreshold
                            \/ lastRow.pHashDistance <= RawPHashThreshold
        IN /\ sameClass => (lastRow.pass <=> strict)
           /\ (~sameClass /\ ~lastRow.related) => (lastRow.pass <=> relaxed)

\* C29 (SpecSearch): the row just read is handed to verification if and only
\* if its average-hash distance is within the average-hash bound or its
\* perceptual-hash distance is within the perceptual-hash bound that
\* FindSimilarImages selects for its format pair; a row that fails both bounds
\* is never decoded and never among the matches.
PrefilterEitherBound ==
    /\ lastRow.kind # "none" =>
           LET th == PrefilterThresholds(searchOptions.kind, lastRow.kind, lastRow.related)
               within == \/ lastRow.avgHashDistance <= th.avg
                         \/ lastRow.pHashDistance <= th.pHash
           IN /\ cand[lastRow.id].status = (IF within THEN "verifying" ELSE "filtered")
              /\ cand[lastRow.id].pass <=> within
    /\ \A i \in Records :
           /\ cand[i].status \in {"verifying", "done"} => cand[i].pass
           /\ ~cand[i].pass => /\ cand[i].disk = "none"
                               /\ ~InMatches(i)

\* the row just read is handed to verification on its perceptual-hash distance
\* alone, its average-hash distance being beyond the bound, after a row that
\* failed both bounds was left undecoded while another row was verified
PrefilterEitherBoundWitness ==
    /\ lastRow.kind # "none"
    /\ LET th == PrefilterThresholds(searchOptions.kind, lastRow.kind, lastRow.related)
       IN /\ lastRow.avgHashDistance > th.avg
          /\ lastRow.pHashDistance <= th.pHash
    /\ cand[lastRow.id].status = "verifying"
    /\ \E i \in Records : cand[i].status = "filtered" /\ cand[i].disk = "none"
    /\ \E i \in Records : cand[i].status = "done" /\ cand[i].disk = "ok"

\* C30 (SpecNames): two base filenames are judged related exactly when one
\* contains the other as a substring, or when the maximal runs of digits of
\* the one, in order, are those of the other and there is at least one.
FilenameRelation ==
    namesOut.done =>
        LET Contains(s, t) ==
                \E i \in 1..(Len(s) - Len(t) + 1) : SubSeq(s, i, i + Len(t) - 1) = t
            IsRun(s, a, b) ==
                /\ a <= b
                /\ \A i \in a..b : IsDigit(s[i])
                /\ a = 1 \/ ~IsDigit(s[a - 1])
                /\ b = Len(s) \/ ~IsDigit(s[b + 1])
            Runs(s) == {r \in (1..Len(s)) \X (1..Len(s)) : IsRun(s, r[1], r[2])}
            RunList(s) ==
                {<<Cardinality({q \in Runs(s) : q[1] < r[1]}), SubSeq(s, r[1], r[2])>> :
                    r \in Runs(s)}
            base1 == namesIn.base1
            base2 == namesIn.base2
        IN namesOut.related <=>
               \/ Contains(base1, base2)
               \/ Contains(base2, base1)
               \/ RunList(base1) # {} /\ RunList(base1) = RunList(base2)

\* C31 (SpecVerify): at no point do more than 8 verifications run, and the
\* slots taken are those of the running verifications: a verification that
\* has ended, whichever way it left, holds no slot.
VerificationBounded ==
    /\ Cardinality(Verifying) <= 8
    /\ verifySem = Cardinality(Verifying)
    /\ verifyPc = "returned" => verifySem = 0

\* a verification has just left on a missing file while the row loop, with
\* rows still to read, had all 8 slots taken; 7 are taken now
VerificationBoundedWitness ==
    /\ lastExit = "missing"
    /\ verifyPc = "rows"
    /\ NextCandidate \in Candidates
    /\ Cardinality(Verifying) = 7
    /\ verifySem = 7

\* C32 (SpecStore): a search query with a non-empty sourcePrefix returns
\* exactly the rows of table images that carry that sourcePrefix, and one with
\* an empty sourcePrefix returns every row, for a JPG query (whatever its
\* filename pattern) as for any other.
PrefixScoping ==
    queried.ran =>
        /\ queried.filter # 0 => queried.rows = {r \in images : r.prefix = queried.filter}
        /\ queried.filter = 0 => queried.rows = images

\* a JPG query whose filename pattern matches no stored path has just run with
\* a non-empty sourcePrefix on a table that holds rows of two prefixes, and
\* returned some of them
PrefixScopingWitness ==
    /\ queried.ran
    /\ queried.jpg
    /\ queried.pattern = 0
    /\ queried.filter # 0
    /\ queried.rows # {}
    /\ \E r \in images : r.prefix # queried.filter

\* C33 (SpecDistance): CalculateHammingDistance(h1, h2) is the number of
\* positions below the length of the shorter hash where the characters
\* differ; it is 0 for a hash against itself, the same with the arguments
\* exchanged, and never above the length of the shorter hash.
HammingDistance ==
    distOut.done =>
        LET h1 == distIn.hash1
            h2 == distIn.hash2
            shorter == IF Len(h1) <= Len(h2) THEN Len(h1) ELSE Len(h2)
        IN /\ distOut.distance = Cardinality({i \in 1..shorter : h1[i] # h2[i]})
           /\ h1 = h2 => distOut.distance = 0
           /\ distOut.distance = distOut.swapped
           /\ distOut.distance <= shorter

\* the distance of two hashes of different lengths was computed: they differ
\* in every position of the shorter one, which is not empty
HammingDistanceWitness ==
    /\ distOut.done
    /\ Len(distIn.hash1) = 2
    /\ Len(distIn.hash2) = 3
    /\ distOut.distance = 2

\* C34 (SpecCommand): every directory-walk error on an entry is logged, in
\* debug mode or not, and the traversal continues: when the walk is over every
\* entry was visited, the images among them are the files to process, and a
\* scan that ends has processed them all.
WalkErrorLoggedAndSkipped ==
    /\ walkLog = walkStats.errorCount
    /\ cmdPc \in {"process", "returned"} =>
           /\ walkLeft = 0
           /\ filesToProcess = walkStats.filesFound - walkStats.filesSkipped
    /\ cmdPc = "returned" => filesDone = filesToProcess

\* C35: under fair scheduling, with every per-file processing call returning,
\* ScanAndStoreFolder eventually returns and every worker, the forwarder, the
\* buffer monitor and the aggregator have finished by then or finish afterwards.
ScanReturned ==
    /\ mainPc = "done"
    /\ \A f \in Files : wpc[f] = "done"
    /\ fwdPc = "done"
    /\ monitorPc = "done"
    /\ aggPc = "done"

ScanTerminates == <>[]ScanReturned

ScanTerminatesWitness ==
    /\ ScanReturned
    /\ stats.filesProcessed > 0
    /\ stats.semaphoreAbandonments > 0

\* C36: resultsBuffer is closed only after every worker has finished, resultsChan
\* is closed only after the forwarder has stopped, and neither a worker nor the
\* forwarder is ever at a send on a channel that is already closed.
BufferClosedAfterWorkers == bufferClosed => \A f \in Files : wpc[f] = "done"

ChanClosedAfterForwarder == chanClosed => fwdPc = "done"

NoSendOnClosedChannel ==
    /\ BufferClosedAfterWorkers
    /\ ChanClosedAfterForwarder
    /\ ~(bufferClosed /\ \E f \in Files : wpc[f] = "send")
    /\ ~(chanClosed /\ fwdPc = "forward")

\* C37: the acquisition and release counters never differ by less than 0 or by
\* more than maxWorkers, and once every worker has finished the two are equal
\* and acquisitions plus abandonments is the number of enumerated files.
SemaphoreDiff == stats.semaphoreAcquisitions - stats.semaphoreReleases

SemaphoreDiffNonNegative == 0 <= SemaphoreDiff

SemaphoreDiffBounded == SemaphoreDiff <= maxWorkers

SemaphoreBalancedAtEnd ==
    (\A f \in Files : wpc[f] = "done") =>
        /\ stats.semaphoreAcquisitions = stats.semaphoreReleases
        /\ semaphore = 0
        /\ stats.semaphoreAcquisitions + stats.semaphoreAbandonments = NumFiles

SemaphoreAccounting ==
    /\ SemaphoreDiffNonNegative
    /\ SemaphoreDiffBounded
    /\ SemaphoreBalancedAtEnd

TypeOK ==
    /\ semaphore \in 0..DefaultMaxWorkers
    /\ Len(resultsBuffer) <= BufferSize

====
